---- MODULE Spec2Model ----
(***************************************************************************)
(* Crowd lifecycle simulation engine of ai-event-manager:                  *)
(* FullEventLifecycleSimulation (src/src/simulation/lifecycle_core.py).    *)
(* Coordinates are (x, y) = (row, col), 0-based as in the source; TLA+     *)
(* sequences are 1-based, so attendees[0] of the source is attendees[1].   *)
(***************************************************************************)
EXTENDS Integers, Sequences, FiniteSets, TLC

\* ---------------------------------------------------------------- bounds
MaxStep == 5
MaxAttendees == 2
MaxThreshold == 2
EvacSteps == 9
ScenarioSteps == 50
MaxCrowd == 8
RushSteps == 16
MaxScale == 2
MaxCoreAttendees == 3
MaxTimeStep == 14
ObservedSteps == 2

\* ------------------------------------------------------- program constants
OPEN == 0
WALL == 1
DEST == 2
ENTRANCE == 3
EXITGATE == 4
DensityRadius == 2
DensityThresholdTenths == 6
LeaveEarlyPercent == 2
NoneStep == -1
VisAttendeeBase == 5
VisDensityCap == 4
FullCongestionDensity == 3

\* Representative values of a uniform draw in [0, 1), in hundredths: one
\* below every threshold the code compares a draw with (0.02, any density
\* above 0.6) and one above every such threshold that is below 1.
RandDraws == {0, 99}

\* config["simulation_time_scale_factor"]: steps per minute.
ScaleFactors == 1..MaxScale

\* ------------------------------------------------------------ venue maps
\* A venue map is a tuple of rows of integer codes.
MapA == << <<3, 0, 0>>,
           <<0, 0, 0>>,
           <<0, 0, 4>> >>
MapB == << <<3, 4, 0>>,
           <<4, 1, 2>> >>
MapC == << <<3, 0, 3, 0>>,
           <<1, 1, 2, 4>> >>
MapD == << <<3, 0, 4>> >>
MapE == << <<3, 0, 0, 0, 4>> >>
MapF == << <<3, 0, 1, 0>> >>
MapG == << <<3, 1, 0>> >>
MapH == << <<3, 0, 2>> >>
MapI == << <<0, 0, 4>> >>
MapJ == << <<3, 0, 1, 1, 0>> >>
MapK == << <<3, 0>>,
           <<0, 4>> >>
Maps == {MapB, MapC, MapD}

Rows(m) == Len(m)
Cols(m) == Len(m[1])
Cell(m, x, y) == m[x + 1][y + 1]
InBounds(m, x, y) == 0 <= x /\ x < Rows(m) /\ 0 <= y /\ y < Cols(m)

\* np.argwhere(map_data == code): the matching cells in row-major order.
Argwhere(m, code) ==
    LET all == [k \in 1..(Rows(m) * Cols(m)) |->
                  <<(k - 1) \div Cols(m), (k - 1) % Cols(m)>>]
        Match(p) == Cell(m, p[1], p[2]) = code
    IN SelectSeq(all, Match)

FindKeyLocations(m) ==
    [entrances    |-> Argwhere(m, ENTRANCE),
     exits        |-> Argwhere(m, EXITGATE),
     destinations |-> Argwhere(m, DEST),
     open_space   |-> Argwhere(m, OPEN)]

\* ------------------------------------------------------------- attendees
NewAttendee(id, x, y, entry_time_step, goal) ==
    [id |-> id, x |-> x, y |-> y, goal |-> goal,
     status |-> "moving",
     total_wait_time_steps |-> 0,
     entry_time_step |-> entry_time_step,
     goal_reached_step |-> NoneStep]

Abs(n) == IF n < 0 THEN -n ELSE n
Max(a, b) == IF a >= b THEN a ELSE b
Min(a, b) == IF a <= b THEN a ELSE b

\* The fields of FullEventLifecycleSimulation (lifecycle_core.py, __init__):
\*   map_data, open_gates, total_attendees, timeline_steps, current_step,
\*   attendees, successful_entries, entry_progress, max_wait_time.
\* max_steps is the number of steps the driver runs (run_fast_simulation);
\* current_phase is the phase the last completed run_lifecycle_step returned
\* ("none" before the first); error is the exception a step raised ("none"
\* while none was raised), after which the run is over. scale_factor is
\* config["simulation_time_scale_factor"]; metrics is the snapshot the last
\* completed run_lifecycle_step or get_current_metrics call returned, as a
\* tuple of one record (the empty tuple before the first). last_step holds
\* what the last run_lifecycle_step call drew and saw, when the run is
\* observed (the empty tuple otherwise): the leave-early rolls, the shuffled
\* order, the blocking draws and the attendees as _update_goals_for_phase
\* left them to _move_attendees_smart.
VARIABLES map_data, open_gates, total_attendees, timeline_steps, max_steps,
          current_step, attendees, successful_entries, entry_progress,
          max_wait_time, current_phase, error, scale_factor, metrics, last_step

\* The fields of core.Simulation (core.py, __init__): grid, the attendees
\* (core_attendees; records of models.Attendee), distance_map, time_step and
\* completed_ids; n_attendees is config.n_attendees, entry_list the list made
\* of the entries set, and core_error the exception the constructor raised
\* ("none" if none).
VARIABLES grid, n_attendees, entry_list, core_attendees, distance_map, time_step,
          completed_ids, core_error

lifecycleVars == <<map_data, open_gates, total_attendees, timeline_steps, max_steps,
                   current_step, attendees, successful_entries, entry_progress,
                   max_wait_time, current_phase, error, scale_factor, metrics,
                   last_step>>

coreVars == <<grid, n_attendees, entry_list, core_attendees, distance_map,
              time_step, completed_ids, core_error>>

\* The fields of TimeConverter (time_converter.py): start_time and the scale
\* factor (converter_scale_factor); time_str is the argument of the last
\* to_step call, step_number its result, and real_time the result of
\* to_real_time on that step (the empty tuple before the call). A time of day
\* "HH:MM" is the pair <<HH, MM>>.
VARIABLES start_time, converter_scale_factor, time_str, step_number, real_time

converterVars == <<start_time, converter_scale_factor, time_str, step_number, real_time>>

\* The arguments and results of validate_ai_suggestions (ai_validation.py):
\* its three dictionaries, the dictionary the call returned
\* (validation_results) and the one a second call on the corrected
\* suggestions returned (revalidation_results), each wrapped in a tuple that
\* is empty before the call; validation_calls counts the calls made and
\* validation_error is the exception a call raised ("none" if none). A
\* dictionary is a function from its keys to integers.
VARIABLES simulation_data, ai_suggestions, current_config, validation_results,
          revalidation_results, validation_calls, validation_error

validatorVars == <<simulation_data, ai_suggestions, current_config,
                   validation_results, revalidation_results, validation_calls,
                   validation_error>>

vars == <<lifecycleVars, coreVars, converterVars, validatorVars>>

\* validate_ai_suggestions is not under test.
ValidatorIdle ==
    /\ simulation_data = <<>>
    /\ ai_suggestions = <<>>
    /\ current_config = <<>>
    /\ validation_results = <<>>
    /\ revalidation_results = <<>>
    /\ validation_calls = 0
    /\ validation_error = "none"

\* No TimeConverter is under test.
ConverterIdle ==
    /\ start_time = <<>>
    /\ converter_scale_factor = 1
    /\ time_str = <<>>
    /\ step_number = 0
    /\ real_time = <<>>

\* No core.Simulation has been constructed.
CoreIdle ==
    /\ grid = <<>>
    /\ n_attendees = 0
    /\ entry_list = <<>>
    /\ core_attendees = <<>>
    /\ distance_map = <<>>
    /\ time_step = 0
    /\ completed_ids = {}
    /\ core_error = "none"

locations == FindKeyLocations(map_data)

\* entrances[:open_gates]
ActiveEntrances(m, gates) ==
    SubSeq(FindKeyLocations(m).entrances, 1,
           Min(gates, Len(FindKeyLocations(m).entrances)))

\* _create_attendees: goals[i] is the open-space cell drawn for attendee i.
CreateAttendees(m, gates, total, goals) ==
    LET active == ActiveEntrances(m, gates)
    IN IF active = <<>>
       THEN <<>>
       ELSE [i \in 1..total |->
               LET entrance == active[((i - 1) % Len(active)) + 1]
               IN NewAttendee(i - 1, entrance[1], entrance[2], 0, goals[i])]

\* ----------------------------------------------------------------- phase
\* Mutant of GetCurrentPhase: the thresholds are compared with < instead of <=.
GetCurrentPhaseStrict(step, tl) ==
    IF step < tl.entry_rush_end THEN "entry_rush"
    ELSE IF step < tl.mid_event_end THEN "mid_event"
    ELSE "evacuation"

GetCurrentPhase(step, tl) ==
    IF step <= tl.entry_rush_end THEN "entry_rush"
    ELSE IF step <= tl.mid_event_end THEN "mid_event"
    ELSE "evacuation"

\* Mutant of NearestExit: among the minimal exits the last one in registry
\* order is taken.
NearestExitLastOfTies(exits, x, y) ==
    LET d(k) == Abs(exits[k][1] - x) + Abs(exits[k][2] - y)
        best == CHOOSE k \in 1..Len(exits) :
                    /\ \A j \in 1..Len(exits) : d(k) <= d(j)
                    /\ \A j \in (k + 1)..Len(exits) : d(j) > d(k)
    IN exits[best]

\* min(exits, key=Manhattan distance): the first minimal exit in registry order.
NearestExit(exits, x, y) ==
    LET d(k) == Abs(exits[k][1] - x) + Abs(exits[k][2] - y)
        best == CHOOSE k \in 1..Len(exits) :
                    /\ \A j \in 1..Len(exits) : d(k) <= d(j)
                    /\ \A j \in 1..(k - 1) : d(j) > d(k)
    IN exits[best]

\* Mutant of Evacuate: the reassignment also resets the wait counter.
EvacuateResettingWait(a, exits) ==
    [a EXCEPT !.status = "evacuating",
              !.goal = NearestExit(exits, a.x, a.y),
              !.goal_reached_step = NoneStep,
              !.total_wait_time_steps = 0]

Evacuate(a, exits) ==
    [a EXCEPT !.status = "evacuating",
              !.goal = NearestExit(exits, a.x, a.y),
              !.goal_reached_step = NoneStep]

LeaveEarly(a, exits) ==
    [a EXCEPT !.goal = NearestExit(exits, a.x, a.y),
              !.status = "leaving_early",
              !.goal_reached_step = NoneStep]

Mingle(a, destinations) ==
    [a EXCEPT !.goal = destinations[(a.id % Len(destinations)) + 1],
              !.status = "mingling",
              !.goal_reached_step = NoneStep]

\* The evacuation loop: status is assigned before min() raises on no exits.
EvacuateAll(att, exits) ==
    IF exits = <<>>
    THEN [att |-> [att EXCEPT ![1].status = "evacuating"], err |-> "ValueError"]
    ELSE [att |-> [i \in 1..Len(att) |-> Evacuate(att[i], exits)], err |-> "none"]

\* np.random.random() < 0.02, the draw given in hundredths.
RollsLeaveEarly(roll) == roll < LeaveEarlyPercent

\* The mid-event loop from attendee k on; rolls[k] is attendee k's draw.
RECURSIVE ReassignFrom(_, _, _, _)
ReassignFrom(k, att, rolls, loc) ==
    IF k > Len(att) THEN [att |-> att, err |-> "none"]
    ELSE IF RollsLeaveEarly(rolls[k])
    THEN IF loc.exits = <<>>
         THEN [att |-> att, err |-> "ValueError"]
         ELSE ReassignFrom(k + 1, [att EXCEPT ![k] = LeaveEarly(att[k], loc.exits)],
                           rolls, loc)
    ELSE IF loc.destinations = <<>>
         THEN [att |-> att, err |-> "ZeroDivisionError"]
         ELSE ReassignFrom(k + 1, [att EXCEPT ![k] = Mingle(att[k], loc.destinations)],
                           rolls, loc)

\* The guard of the evacuation branch, attendees[0] being present.
NeedsEvacuation(att) == att[1].status # "evacuating"

\* The guard of the mid-event branch, attendees[0] being present.
NeedsReassign(att) == att[1].status # "mingling" /\ att[1].status # "leaving_early"

UpdateGoalsForPhase(att, phase, rolls, loc) ==
    IF phase = "evacuation"
    THEN IF att = <<>> THEN [att |-> att, err |-> "IndexError"]
         ELSE IF NeedsEvacuation(att) THEN EvacuateAll(att, loc.exits)
         ELSE [att |-> att, err |-> "none"]
    ELSE IF phase = "mid_event"
    THEN IF att = <<>> THEN [att |-> att, err |-> "IndexError"]
         ELSE IF NeedsReassign(att) THEN ReassignFrom(1, att, rolls, loc)
         ELSE [att |-> att, err |-> "none"]
    ELSE [att |-> att, err |-> "none"]

\* -------------------------------------------------------------- movement
Pos(a) == <<a.x, a.y>>
Occupied(att) == {Pos(att[i]) : i \in 1..Len(att)}

\* Mutant of Stays: only an attendee without goal is skipped.
StaysOnlyWithoutGoal(a) == a.goal = <<>>

\* goal is None or (x, y) == goal: the attendee does not try to move.
Stays(a) == a.goal = <<>> \/ Pos(a) = a.goal

\* _calculate_local_density, as the pair count / total.
CalculateLocalDensity(m, x, y, occupied) ==
    LET win == {p \in (Max(0, x - DensityRadius)..Min(Rows(m) - 1, x + DensityRadius))
                      \X (Max(0, y - DensityRadius)..Min(Cols(m) - 1, y + DensityRadius)) :
                   Cell(m, p[1], p[2]) # WALL}
    IN [count |-> Cardinality(win \cap occupied), total |-> Cardinality(win)]

\* Mutant of DensityHigh: the threshold is 0.5 and is included.
DensityHighFromHalf(d) == d.total > 0 /\ d.count * 2 >= d.total

\* density > 0.6, where density is count / total if total > 0 else 0.
DensityHigh(d) == d.total > 0 /\ d.count * 10 > DensityThresholdTenths * d.total

\* np.random.rand() < density, the draw given in hundredths.
DrawBelowDensity(draw, d) == d.total > 0 /\ draw * d.total < 100 * d.count

\* Mutant of Walkable: the wall test is dropped.
WalkableIgnoringWalls(m, x, y) == InBounds(m, x, y)

\* The test of a candidate neighbour cell in _find_best_neighbor.
Walkable(m, x, y) == InBounds(m, x, y) /\ Cell(m, x, y) # WALL

\* Mutant of NeighborOffsets: dy is the outer loop and dx the inner one.
NeighborOffsetsColumnFirst ==
    << <<-1, -1>>, <<0, -1>>, <<1, -1>>, <<-1, 0>>, <<1, 0>>, <<-1, 1>>, <<0, 1>>, <<1, 1>> >>

\* Lines 186-188: the offsets (dx, dy) in the order the two loops visit them.
NeighborOffsets ==
    << <<-1, -1>>, <<-1, 0>>, <<-1, 1>>, <<0, -1>>, <<0, 1>>, <<1, -1>>, <<1, 0>>, <<1, 1>> >>

\* Mutant of ArgMin: the index of the first largest entry (np.argmax).
ArgMax(s) ==
    CHOOSE k \in 1..Len(s) :
        /\ \A j \in 1..Len(s) : s[k] >= s[j]
        /\ \A j \in 1..(k - 1) : s[j] < s[k]

\* np.argmin: the index of the first smallest entry.
ArgMin(s) ==
    CHOOSE k \in 1..Len(s) :
        /\ \A j \in 1..Len(s) : s[k] <= s[j]
        /\ \A j \in 1..(k - 1) : s[j] > s[k]

\* Mutant of FindBestNeighbor: only a neighbour nearer to the goal than the
\* attendee's own cell is taken.
FindBestNeighborNearerOnly(m, a, occupied) ==
    LET cand == [k \in 1..Len(NeighborOffsets) |->
                   <<a.x + NeighborOffsets[k][1], a.y + NeighborOffsets[k][2]>>]
        D2(p) == (p[1] - a.goal[1]) * (p[1] - a.goal[1])
                 + (p[2] - a.goal[2]) * (p[2] - a.goal[2])
        Ok(p) == Walkable(m, p[1], p[2]) /\ p \notin occupied /\ D2(p) < D2(Pos(a))
        nearer == SelectSeq(cand, Ok)
        distances == [k \in 1..Len(nearer) |-> D2(nearer[k])]
    IN IF nearer = <<>> THEN <<>> ELSE nearer[ArgMin(distances)]

\* _find_best_neighbor: <<>> stands for None. The distances are compared by
\* their squares (np.sqrt is monotonic and exact enough to keep ties ties).
FindBestNeighbor(m, a, occupied) ==
    LET cand == [k \in 1..Len(NeighborOffsets) |->
                   <<a.x + NeighborOffsets[k][1], a.y + NeighborOffsets[k][2]>>]
        Ok(p) == Walkable(m, p[1], p[2])
        Free(p) == p \notin occupied
        unoccupied == SelectSeq(SelectSeq(cand, Ok), Free)
        distances == [k \in 1..Len(unoccupied) |->
                        (unoccupied[k][1] - a.goal[1]) * (unoccupied[k][1] - a.goal[1])
                        + (unoccupied[k][2] - a.goal[2]) * (unoccupied[k][2] - a.goal[2])]
    IN IF unoccupied = <<>> THEN <<>> ELSE unoccupied[ArgMin(distances)]

\* Mutant of Block: the wait counter goes up by two.
BlockCountingTwice(a) == [a EXCEPT !.total_wait_time_steps = @ + 2]

\* Lines 146-151: the attendee cannot move this step.
Block(a) == [a EXCEPT !.total_wait_time_steps = @ + 1]

\* Lines 153-154: a move from an entrance cell to an open-space cell.
IsEntry(m, a, move) == Cell(m, a.x, a.y) = ENTRANCE /\ Cell(m, move[1], move[2]) = OPEN

\* Lines 160-171: the move is committed, then arrival and exit are handled.
Arrive(a, step) ==
    IF Pos(a) = a.goal /\ a.goal_reached_step = NoneStep
    THEN [a EXCEPT !.goal_reached_step = step, !.status = "reached_goal"]
    ELSE a

LeaveVenue(m, a) ==
    IF (a.status = "evacuating" \/ a.status = "leaving_early")
       /\ Cell(m, a.x, a.y) = EXITGATE
    THEN [a EXCEPT !.status = "exited"]
    ELSE a

CommitMove(m, a, move, step) ==
    LeaveVenue(m, Arrive([a EXCEPT !.x = move[1], !.y = move[2]], step))

\* Mutant of ProcessAttendee: a committed move does not claim its cell.
ProcessAttendeeNotClaiming(M, i, draw, initial_occupied, step, m) ==
    LET a == M.att[i]
        density == CalculateLocalDensity(m, a.x, a.y, initial_occupied)
        best_move == FindBestNeighbor(m, a, M.occ)
    IN IF Stays(a) THEN M
       ELSE IF (DensityHigh(density) /\ DrawBelowDensity(draw, density)) \/ best_move = <<>>
       THEN [M EXCEPT !.att[i] = Block(a),
                      !.mw = Max(@, Block(a).total_wait_time_steps),
                      !.occ = @ \cup {Pos(a)}]
       ELSE [M EXCEPT !.att[i] = CommitMove(m, a, best_move, step),
                      !.se = IF IsEntry(m, a, best_move) THEN @ + 1 ELSE @,
                      !.prog = IF IsEntry(m, a, best_move)
                               THEN Append(@, (M.se + 1) * 100) ELSE @]

\* One iteration of the loop over agents_to_move. M holds the attendees, the
\* next_occupied set and the counters; draw is the value rand() returns if called.
ProcessAttendee(M, i, draw, initial_occupied, step, m) ==
    LET a == M.att[i]
        density == CalculateLocalDensity(m, a.x, a.y, initial_occupied)
        best_move == FindBestNeighbor(m, a, M.occ)
    IN IF Stays(a) THEN M
       ELSE IF (DensityHigh(density) /\ DrawBelowDensity(draw, density)) \/ best_move = <<>>
       THEN [M EXCEPT !.att[i] = Block(a),
                      !.mw = Max(@, Block(a).total_wait_time_steps),
                      !.occ = @ \cup {Pos(a)}]
       ELSE [M EXCEPT !.att[i] = CommitMove(m, a, best_move, step),
                      !.occ = @ \cup {best_move},
                      !.se = IF IsEntry(m, a, best_move) THEN @ + 1 ELSE @,
                      !.prog = IF IsEntry(m, a, best_move)
                               THEN Append(@, (M.se + 1) * 100) ELSE @]

RECURSIVE MoveFrom(_, _, _, _, _, _, _)
MoveFrom(k, M, order, draws, initial_occupied, step, m) ==
    IF k > Len(order) THEN M
    ELSE MoveFrom(k + 1,
                  ProcessAttendee(M, order[k], draws[order[k]], initial_occupied, step, m),
                  order, draws, initial_occupied, step, m)

\* _move_attendees_smart: order is the shuffled processing order. An entry
\* of prog is the rate successful_entries / total_attendees * 100, kept as
\* its numerator successful_entries * 100 over the denominator total_attendees.
MoveAttendeesSmart(att, order, draws, step, m, se, prog, mw) ==
    MoveFrom(1,
             [att |-> att,
              occ |-> {Pos(att[i]) : i \in {j \in 1..Len(att) : Stays(att[j])}},
              se |-> se, prog |-> prog, mw |-> mw],
             order, draws, Occupied(att), step, m)

\* Lines 172-173: the else clause of the loop runs once the loop is over and
\* reads the loop variable, which is unbound when there was no attendee.
MoveError(att) == IF att = <<>> THEN "UnboundLocalError" ELSE "none"

\* np.random.shuffle: every order of the attendees.
Orders(n) == {p \in [1..n -> 1..n] : \A i, j \in 1..n : i # j => p[i] # p[j]}

\* The leave-early draws made by this step: none unless the loop runs.
RollChoices(att, phase) ==
    IF phase = "mid_event" /\ att # <<>> /\ NeedsReassign(att)
    THEN [1..Len(att) -> RandDraws]
    ELSE {[i \in 1..Len(att) |-> 0]}

\* The density draws made by this step: rand() is called only for an attendee
\* that tries to move from a cell of density above 0.6.
DrawChoices(att, m) ==
    {d \in [1..Len(att) -> RandDraws] :
        \A i \in 1..Len(att) :
            (Stays(att[i])
             \/ ~DensityHigh(CalculateLocalDensity(m, att[i].x, att[i].y, Occupied(att))))
            => d[i] = 0}

\* ---------------------------------------------------------------- metrics
\* All cells of the map in row-major order.
AllCells(m) ==
    [k \in 1..(Rows(m) * Cols(m)) |-> <<(k - 1) \div Cols(m), (k - 1) % Cols(m)>>]

RECURSIVE SumSeq(_)
SumSeq(s) == IF s = <<>> THEN 0 ELSE Head(s) + SumSeq(Tail(s))

\* attendee_density[x, y]: the attendees standing on an open-space cell.
AttendeeDensity(m, att, p) ==
    IF Cell(m, p[1], p[2]) = OPEN
    THEN Cardinality({i \in 1..Len(att) : Pos(att[i]) = p})
    ELSE 0

\* get_visualization_grid: the value of one cell, 5..9 for an occupied
\* open-space cell and the map code otherwise.
VisCell(m, att, p) ==
    IF Cell(m, p[1], p[2]) = OPEN /\ AttendeeDensity(m, att, p) > 0
    THEN VisAttendeeBase + Min(AttendeeDensity(m, att, p) - 1, VisDensityCap)
    ELSE Cell(m, p[1], p[2])

\* vis_grid[vis_grid >= 5]
AttendeeCells(m, att) ==
    LET Holds(p) == VisCell(m, att, p) >= VisAttendeeBase
    IN SelectSeq(AllCells(m), Holds)

\* Lines 250-259: min(avg_density / 3.0, 1.0) * 100 as the pair num / den.
CongestionPercent(m, att) ==
    LET cells == AttendeeCells(m, att)
        actual_densities == [k \in 1..Len(cells) |-> VisCell(m, att, cells[k]) - (VisAttendeeBase - 1)]
        total == SumSeq(actual_densities)
    IN IF Len(cells) > 0
       THEN IF total >= FullCongestionDensity * Len(cells)
            THEN [num |-> 100, den |-> 1]
            ELSE [num |-> 100 * total, den |-> FullCongestionDensity * Len(cells)]
       ELSE [num |-> 0, den |-> 1]

\* bins = [0, 5, 10, 15, inf]: the finite edges; the last bin ends at infinity.
BinEdges == <<0, 5, 10, 15>>

\* np.histogram(values, bins): bin k is [edge k, edge k+1), the last one
\* [last edge, inf]; a value below the first edge is not counted.
Histogram(values, edges) ==
    [k \in 1..Len(edges) |->
        Cardinality({i \in 1..Len(values) :
                        /\ edges[k] <= values[i]
                        /\ (k < Len(edges) => values[i] < edges[k + 1])})]

\* Lines 241-248: the counts of hist[:-1], in key order "0-5min", "5-10min",
\* "10-15min"; the empty tuple stands for the empty dictionary.
WaitTimeDistribution(att) ==
    LET hist == Histogram([i \in 1..Len(att) |-> att[i].total_wait_time_steps], BinEdges)
    IN IF att = <<>> THEN <<>> ELSE SubSeq(hist, 1, Len(hist) - 1)

\* Lines 266-271: the latest entry of entry_progress as the pair num / den.
LatestEntryRate(prog, total) ==
    IF prog # <<>> THEN [num |-> prog[Len(prog)], den |-> total]
    ELSE [num |-> 0, den |-> 1]

\* get_current_metrics. int(mean / scale) is the floor of sum / (n * scale).
GetCurrentMetrics(m, att, prog, total, mw, scale) ==
    [peak_congestion_percent |-> CongestionPercent(m, att),
     real_wait_time_mins |->
        IF att = <<>> THEN 0
        ELSE SumSeq([i \in 1..Len(att) |-> att[i].total_wait_time_steps])
                \div (Len(att) * scale),
     max_wait_time_mins |-> mw \div scale,
     wait_time_distribution |-> WaitTimeDistribution(att),
     entry_success_rate |-> LatestEntryRate(prog, total),
     debug_occupied_cells |-> Len(AttendeeCells(m, att)),
     debug_visible_attendees |->
        Cardinality({i \in 1..Len(att) : Cell(m, att[i].x, att[i].y) = OPEN})]

\* ------------------------------------------------------------ operations
Range(s) == {s[i] : i \in 1..Len(s)}

Construct(m, gates, total, tl, budget, goals, scale) ==
    /\ map_data = m
    /\ scale_factor = scale
    /\ metrics = <<>>
    /\ open_gates = gates
    /\ total_attendees = total
    /\ timeline_steps = tl
    /\ max_steps = budget
    /\ current_step = 0
    /\ attendees = CreateAttendees(m, gates, total, goals)
    /\ successful_entries = 0
    /\ entry_progress = <<>>
    /\ max_wait_time = 0
    /\ current_phase = "none"
    /\ error = "none"
    /\ last_step = <<>>
    /\ CoreIdle
    /\ ConverterIdle
    /\ ValidatorIdle

\* open_gates_override: from no gate to one more than the venue has entrances.
GateChoices(m) == 0..(Len(FindKeyLocations(m).entrances) + 1)

\* np.random.randint over open_space, once per attendee.
GoalChoices(m, total) == [1..total -> Range(FindKeyLocations(m).open_space)]

Init ==
    \E m \in Maps, total \in 0..MaxAttendees,
       e \in 0..MaxThreshold, md \in 0..MaxThreshold :
        \E gates \in GateChoices(m), goals \in GoalChoices(m, total) :
            Construct(m, gates, total,
                      [entry_rush_end |-> e, mid_event_end |-> md],
                      MaxStep, goals, 1)

\* Scenario A: the wall-free grid with the entrance and the exit in opposite
\* corners, every step of the run in the entry rush.
InitScenarioA ==
    \E total \in 1..MaxAttendees :
        \E goals \in GoalChoices(MapA, total) :
            Construct(MapA, 1, total,
                      [entry_rush_end |-> ScenarioSteps + 1,
                       mid_event_end |-> ScenarioSteps + 1],
                      ScenarioSteps, goals, 1)

\* Evacuation from the first step on: both thresholds lie before step 1.
InitEvacuation ==
    \E m \in Maps \cup {MapA}, total \in 1..MaxAttendees :
        \E gates \in GateChoices(m) \ {0}, goals \in GoalChoices(m, total) :
            Construct(m, gates, total,
                      [entry_rush_end |-> 0, mid_event_end |-> 0],
                      EvacSteps, goals, 1)

\* A run that stays in the entry rush for all its steps, on the one-row venues:
\* MapD, MapF whose last open-space cell lies behind a wall, and MapG whose
\* entrance is walled in.
InitEntryRush ==
    \E m \in {MapD, MapF, MapG}, total \in 1..MaxAttendees, scale \in ScaleFactors :
        \E gates \in GateChoices(m) \ {0}, goals \in GoalChoices(m, total) :
            Construct(m, gates, total,
                      [entry_rush_end |-> RushSteps + 1,
                       mid_event_end |-> RushSteps + 1],
                      RushSteps, goals, scale)

\* Venues that lack a gate: MapH has no exit cell and MapI no entrance cell.
InitGateless ==
    \E m \in {MapH, MapI}, total \in 0..MaxAttendees,
       e \in 0..MaxThreshold, md \in 0..MaxThreshold :
        \E gates \in GateChoices(m), goals \in GoalChoices(m, total) :
            Construct(m, gates, total,
                      [entry_rush_end |-> e, mid_event_end |-> md],
                      MaxStep, goals, 1)

\* What last_step becomes in a step: rolls are the leave-early rolls of the
\* step, order the shuffled order and draws the blocking draws (empty when an
\* exception ends the step before the shuffle), att the attendees after
\* _update_goals_for_phase.
Observation(observed, rolls, order, draws, att) ==
    IF observed
    THEN <<[rolls |-> rolls, order |-> order, draws |-> draws, before |-> att,
            step |-> current_step + 1]>>
    ELSE last_step

\* run_lifecycle_step, of an observed run or not.
LifecycleStep(observed) ==
    /\ error = "none"
    /\ current_step < max_steps
    /\ LET step == current_step + 1
           phase == GetCurrentPhase(step, timeline_steps)
       IN \E rolls \in RollChoices(attendees, phase) :
            LET ug == UpdateGoalsForPhase(attendees, phase, rolls, locations)
            IN IF ug.err # "none" \/ MoveError(ug.att) # "none"
               THEN /\ current_step' = step
                    /\ attendees' = ug.att
                    /\ error' = IF ug.err # "none" THEN ug.err ELSE MoveError(ug.att)
                    /\ last_step' = Observation(observed, rolls, <<>>, <<>>, ug.att)
                    /\ UNCHANGED <<successful_entries, entry_progress,
                                   max_wait_time, current_phase, metrics>>
               ELSE \E order \in Orders(Len(ug.att)), draws \in DrawChoices(ug.att, map_data) :
                      LET M == MoveAttendeesSmart(ug.att, order, draws, step, map_data,
                                                  successful_entries, entry_progress,
                                                  max_wait_time)
                      IN /\ current_step' = step
                         /\ attendees' = M.att
                         /\ successful_entries' = M.se
                         /\ entry_progress' = M.prog
                         /\ max_wait_time' = M.mw
                         /\ current_phase' = phase
                         /\ metrics' = <<GetCurrentMetrics(map_data, M.att, M.prog,
                                                           total_attendees, M.mw,
                                                           scale_factor)>>
                         /\ error' = "none"
                         /\ last_step' = Observation(observed, rolls, order, draws, ug.att)
    /\ UNCHANGED <<map_data, open_gates, total_attendees, timeline_steps, max_steps,
                   scale_factor>>
    /\ UNCHANGED <<coreVars, converterVars, validatorVars>>

\* A short observed run on the venues MapD (a corridor from the entrance to
\* the exit), MapJ (entrance and one open-space cell shut off by walls, so
\* that every cell of an attendee's window can be occupied) and MapK (a square
\* whose two open-space cells are equally far from the entrance and from the
\* exit), every entrance gate open.  The mid-event phase is either skipped
\* or lasts to the upper threshold.
InitObserved ==
    \E m \in {MapD, MapJ, MapK}, total \in 1..MaxAttendees,
       e \in 0..MaxThreshold, md \in 0..MaxThreshold :
        \E gates \in 1..Len(FindKeyLocations(m).entrances),
           goals \in GoalChoices(m, total) :
          /\ md \in {e, MaxThreshold}
          /\ Construct(m, gates, total,
                       [entry_rush_end |-> e, mid_event_end |-> md],
                       ObservedSteps, goals, 1)

\* A short observed run on the venue MapB: two exits next to the entrance and
\* one destination, so that every phase can assign its goals.
InitObservedExits ==
    \E total \in 1..MaxAttendees, e \in 0..MaxThreshold, md \in 0..MaxThreshold :
        \E gates \in GateChoices(MapB) \ {0}, goals \in GoalChoices(MapB, total) :
          /\ md \in {e, MaxThreshold}
          /\ Construct(MapB, gates, total,
                       [entry_rush_end |-> e, mid_event_end |-> md],
                       ObservedSteps, goals, 1)

RunLifecycleStep == LifecycleStep(FALSE)

\* run_lifecycle_step of an observed run.
RunObservedStep == LifecycleStep(TRUE)

Next == RunLifecycleStep

\* The steps the attendees of a crowd have been blocked for while it built
\* up: one value on each side of the last edge of the wait-time histogram.
CrowdWaits == {12, 17}

\* The attendees of a crowd in the corridor venue MapE during the entry rush:
\* c[k] of them stand on the k-th open-space cell and the others still on the
\* entrance; all head for the last open-space cell, the one standing on it
\* has reached it, and the others have been blocked for w steps.
CrowdAttendees(c, total, w) ==
    LET open == FindKeyLocations(MapE).open_space
        entrance == FindKeyLocations(MapE).entrances[1]
        goal == open[Len(open)]
        Before(k) == SumSeq(SubSeq(c, 1, k))
        CellOf(i) == IF i > Before(Len(open)) THEN entrance
                     ELSE open[CHOOSE k \in 1..Len(open) :
                                  Before(k - 1) < i /\ i <= Before(k)]
    IN [i \in 1..total |->
          IF CellOf(i) = goal
          THEN [NewAttendee(i - 1, goal[1], goal[2], 0, goal)
                  EXCEPT !.status = "reached_goal", !.goal_reached_step = Len(open)]
          ELSE [NewAttendee(i - 1, CellOf(i)[1], CellOf(i)[2], 0, goal)
                  EXCEPT !.total_wait_time_steps = w]]

\* A run of the corridor venue that has let a crowd build up behind the
\* attendee standing on the common goal; no metrics snapshot is taken yet.
InitCrowd ==
    \E total \in 1..MaxCrowd, w \in CrowdWaits, scale \in ScaleFactors :
      \E c \in [1..Len(FindKeyLocations(MapE).open_space) -> 0..total] :
        /\ SumSeq(c) <= total
        /\ c[2] <= 1 /\ c[3] <= 1
        /\ map_data = MapE
        /\ scale_factor = scale
        /\ metrics = <<>>
        /\ open_gates = 1
        /\ total_attendees = total
        /\ timeline_steps = [entry_rush_end |-> ScenarioSteps + 1,
                             mid_event_end |-> ScenarioSteps + 1]
        /\ max_steps = ScenarioSteps
        /\ current_step = w + Len(FindKeyLocations(MapE).open_space)
        /\ attendees = CrowdAttendees(c, total, w)
        /\ successful_entries = SumSeq(c)
        /\ entry_progress = [k \in 1..SumSeq(c) |-> k * 100]
        /\ max_wait_time = IF \E i \in 1..total :
                                 CrowdAttendees(c, total, w)[i].total_wait_time_steps = w
                           THEN w ELSE 0
        /\ current_phase = "entry_rush"
        /\ error = "none"
        /\ last_step = <<>>
        /\ CoreIdle
        /\ ConverterIdle
        /\ ValidatorIdle

\* get_current_metrics called on the simulation (simulation_runners.py).
GetCurrentMetricsCall ==
    /\ error = "none"
    /\ metrics' = <<GetCurrentMetrics(map_data, attendees, entry_progress,
                                      total_attendees, max_wait_time, scale_factor)>>
    /\ UNCHANGED <<map_data, open_gates, total_attendees, timeline_steps, max_steps,
                   current_step, attendees, successful_entries, entry_progress,
                   max_wait_time, current_phase, error, scale_factor, last_step>>
    /\ UNCHANGED <<coreVars, converterVars, validatorVars>>

NextMetrics == GetCurrentMetricsCall

Spec == Init /\ [][Next]_vars

SpecScenarioA == InitScenarioA /\ [][Next]_vars

SpecEvacuation == InitEvacuation /\ [][Next]_vars

SpecMetrics == InitCrowd /\ [][NextMetrics]_vars

SpecEntryRush == InitEntryRush /\ [][Next]_vars

SpecGateless == InitGateless /\ [][Next]_vars

NextObserved == RunObservedStep

SpecObserved == InitObserved /\ [][NextObserved]_vars

SpecObservedExits == InitObservedExits /\ [][NextObserved]_vars

\* ------------------------------------------------ BFS engine (core.py)
\* No FullEventLifecycleSimulation has been constructed.
LifecycleIdle ==
    /\ map_data = <<>>
    /\ open_gates = 0
    /\ total_attendees = 0
    /\ timeline_steps = <<>>
    /\ max_steps = 0
    /\ current_step = 0
    /\ attendees = <<>>
    /\ successful_entries = 0
    /\ entry_progress = <<>>
    /\ max_wait_time = 0
    /\ current_phase = "none"
    /\ error = "none"
    /\ scale_factor = 1
    /\ metrics = <<>>
    /\ last_step = <<>>

\* Letter-coded venue maps ('W' walkable, 'X' obstacle, 'E' entry, 'O' exit),
\* as _load_map returns them: a corridor, two entries side by side, two
\* entries that want the same cell, a detour around a wall, an entry that no
\* exit can be reached from, and maps without an entry or without an exit.
GridA == << <<"E", "W", "W", "O">> >>

GridB == << <<"E", "W", "O">>,
            <<"E", "W", "X">> >>

GridC == << <<"E", "W", "E">>,
            <<"X", "O", "X">> >>

GridD == << <<"E", "W", "W">>,
            <<"X", "X", "W">>,
            <<"O", "W", "W">> >>

GridE == << <<"E", "X", "E", "O">> >>

GridF == << <<"W", "W", "O">> >>

GridG == << <<"E", "W", "W">> >>

GridH == << <<"W", "X", "W">> >>

Grids == {GridA, GridB, GridC, GridD, GridE, GridF, GridG, GridH}

CoreCols(g) == IF g = <<>> THEN 0 ELSE Len(g[1])

CoreCells(g) == {<<r, c>> : r \in 0..(Len(g) - 1), c \in 0..(CoreCols(g) - 1)}

GridAt(g, p) == g[p[1] + 1][p[2] + 1]

FindCells(g, kinds) == {p \in CoreCells(g) : GridAt(g, p) \in kinds}

Entries(g) == FindCells(g, {"E"})

Exits(g) == FindCells(g, {"O"})

WalkableCells(g) == FindCells(g, {"W", "E", "O"})

\* Mutant of Neighbors4: the four diagonal cells.
Neighbors4Diagonal(p) ==
    << <<p[1] - 1, p[2] - 1>>, <<p[1] + 1, p[2] + 1>>, <<p[1] - 1, p[2] + 1>>, <<p[1] + 1, p[2] - 1>> >>

\* ((r - 1, c), (r + 1, c), (r, c - 1), (r, c + 1)), in this order.
Neighbors4(p) ==
    << <<p[1] - 1, p[2]>>, <<p[1] + 1, p[2]>>, <<p[1], p[2] - 1>>, <<p[1], p[2] + 1>> >>

\* Some enumeration of a set (the iteration order of a Python set).
RECURSIVE SetToSeq(_)
SetToSeq(S) ==
    IF S = {} THEN <<>>
    ELSE LET x == CHOOSE y \in S : TRUE
         IN  <<x>> \o SetToSeq(S \ {x})

\* Mutant of BfsVisit: obstacle cells are traversed like any other.
RECURSIVE BfsVisitThroughObstacles(_, _, _, _, _)
BfsVisitThroughObstacles(g, dist, q, p, k) ==
    IF k > 4 THEN [dist |-> dist, q |-> q]
    ELSE LET n == Neighbors4(p)[k]
         IN  IF n \in CoreCells(g) /\ dist[n] = -1
             THEN BfsVisitThroughObstacles(g, [dist EXCEPT ![n] = dist[p] + 1],
                                           Append(q, n), p, k + 1)
             ELSE BfsVisitThroughObstacles(g, dist, q, p, k + 1)

\* The for loop over neighbors(r, c) of one dequeued cell p.
RECURSIVE BfsVisit(_, _, _, _, _)
BfsVisit(g, dist, q, p, k) ==
    IF k > 4 THEN [dist |-> dist, q |-> q]
    ELSE LET n == Neighbors4(p)[k]
         IN  IF n \in CoreCells(g) /\ GridAt(g, n) # "X" /\ dist[n] = -1
             THEN BfsVisit(g, [dist EXCEPT ![n] = dist[p] + 1], Append(q, n), p, k + 1)
             ELSE BfsVisit(g, dist, q, p, k + 1)

\* while q: popleft and visit.
RECURSIVE BfsLoop(_, _, _)
BfsLoop(g, dist, q) ==
    IF q = <<>> THEN dist
    ELSE LET v == BfsVisit(g, dist, Tail(q), Head(q), 1)
         IN  BfsLoop(g, v.dist, v.q)

BfsDistanceToExits(g, exits) ==
    BfsLoop(g, [p \in CoreCells(g) |-> IF p \in exits THEN 0 ELSE -1], SetToSeq(exits))

\* models.Attendee(id=i, pos=start).
CoreAttendee(i, start) ==
    [id |-> i, pos |-> start, destination |-> "None", reached |-> FALSE, steps_taken |-> 0]

\* Mutant of BestNeighbor: any free neighbour an exit can be reached from is
\* taken, the last one found winning.
RECURSIVE BestNeighborAnyReachable(_, _, _, _, _, _, _)
BestNeighborAnyReachable(p, dist, walkable, occupied, best_pos, best_dist, k) ==
    IF k > 4 THEN best_pos
    ELSE LET n == Neighbors4(p)[k]
         IN  IF n \in walkable /\ n \notin occupied /\ dist[n] >= 0
             THEN BestNeighborAnyReachable(p, dist, walkable, occupied, n, dist[n], k + 1)
             ELSE BestNeighborAnyReachable(p, dist, walkable, occupied, best_pos,
                                           best_dist, k + 1)

\* The for loop of decide_next_step over the four neighbours.
RECURSIVE BestNeighbor(_, _, _, _, _, _, _)
BestNeighbor(p, dist, walkable, occupied, best_pos, best_dist, k) ==
    IF k > 4 THEN best_pos
    ELSE LET n == Neighbors4(p)[k]
         IN  IF /\ n \in walkable
                /\ n \notin occupied
                /\ dist[n] >= 0
                /\ (best_dist < 0 \/ dist[n] < best_dist)
             THEN BestNeighbor(p, dist, walkable, occupied, n, dist[n], k + 1)
             ELSE BestNeighbor(p, dist, walkable, occupied, best_pos, best_dist, k + 1)

\* decide_next_step: the desired cell, and the reached flag it leaves behind.
DecideNextStep(a, dist, walkable, exits, occupied) ==
    IF a.pos \in exits
    THEN [nxt |-> a.pos, reached |-> TRUE]
    ELSE [nxt |-> BestNeighbor(a.pos, dist, walkable, occupied, a.pos, dist[a.pos], 1),
          reached |-> a.reached]

\* Mutant of ApplyMove: the move is made without counting it.
ApplyMoveNotCounting(a, new_pos) == [a EXCEPT !.pos = new_pos]

\* Attendee.apply_move.
ApplyMove(a, new_pos) ==
    [a EXCEPT !.steps_taken = IF new_pos # a.pos THEN @ + 1 ELSE @,
              !.pos = new_pos]

\* Mutation: attendees that have reached an exit keep their cell occupied.
OccupiedCellsWithReached(att) == {att[i].pos : i \in 1..Len(att)}

\* occupied = {a.pos for a in self.attendees if not a.reached}
OccupiedCells(att) == {att[i].pos : i \in {j \in 1..Len(att) : ~att[j].reached}}

\* Step 2 of _step_once: every unfinished attendee, in list order, decides.
RECURSIVE DecideLoop(_, _, _, _, _, _, _)
DecideLoop(att, desired, k, dist, walkable, exits, occupied) ==
    IF k > Len(att) THEN [att |-> att, desired |-> desired]
    ELSE IF att[k].reached
         THEN DecideLoop(att, desired, k + 1, dist, walkable, exits, occupied)
         ELSE LET d == DecideNextStep(att[k], dist, walkable, exits, occupied)
              IN  DecideLoop([att EXCEPT ![k].reached = d.reached],
                             Append(desired, [aid |-> att[k].id, frm |-> att[k].pos,
                                              to |-> d.nxt]),
                             k + 1, dist, walkable, exits, occupied)

\* Mutant of SortedByAid: the highest id comes first.
RECURSIVE SortedByAidDescending(_)
SortedByAidDescending(s) ==
    IF s = <<>> THEN <<>>
    ELSE LET m == CHOOSE i \in 1..Len(s) :
                     \A j \in 1..Len(s) :
                        s[i].aid > s[j].aid \/ (s[i].aid = s[j].aid /\ i <= j)
         IN  <<s[m]>> \o SortedByAidDescending(SubSeq(s, 1, m - 1) \o SubSeq(s, m + 1, Len(s)))

\* sorted(desired, key=lambda x: x[0]); the sort is stable.
RECURSIVE SortedByAid(_)
SortedByAid(s) ==
    IF s = <<>> THEN <<>>
    ELSE LET m == CHOOSE i \in 1..Len(s) :
                     \A j \in 1..Len(s) :
                        s[i].aid < s[j].aid \/ (s[i].aid = s[j].aid /\ i <= j)
         IN  <<s[m]>> \o SortedByAid(SubSeq(s, 1, m - 1) \o SubSeq(s, m + 1, Len(s)))

\* Mutant of ResolveLoop: a cell already claimed in this step is granted again.
RECURSIVE ResolveLoopIgnoringClaims(_, _, _, _, _)
ResolveLoopIgnoringClaims(sorted, k, claims, final_moves, occupied) ==
    IF k > Len(sorted) THEN final_moves
    ELSE LET d == sorted[k]
         IN  IF d.to = d.frm \/ d.to \notin occupied
             THEN ResolveLoopIgnoringClaims(sorted, k + 1, (d.to :> d.aid) @@ claims,
                                            (d.aid :> d.to) @@ final_moves, occupied)
             ELSE ResolveLoopIgnoringClaims(sorted, k + 1, claims,
                                            (d.aid :> d.frm) @@ final_moves, occupied)

\* Step 3 of _step_once: claims maps a claimed cell to the id that claimed it,
\* final_moves an id to the cell it ends the step on.
RECURSIVE ResolveLoop(_, _, _, _, _)
ResolveLoop(sorted, k, claims, final_moves, occupied) ==
    IF k > Len(sorted) THEN final_moves
    ELSE LET d == sorted[k]
         IN  IF d.to \notin DOMAIN claims /\ (d.to = d.frm \/ d.to \notin occupied)
             THEN ResolveLoop(sorted, k + 1, (d.to :> d.aid) @@ claims,
                              (d.aid :> d.to) @@ final_moves, occupied)
             ELSE ResolveLoop(sorted, k + 1, claims,
                              (d.aid :> d.frm) @@ final_moves, occupied)

\* Mutant of ApplyMoves: an attendee that arrives on an exit is not marked.
ApplyMovesNotMarking(att, final_moves, exits) ==
    [i \in 1..Len(att) |->
        IF att[i].reached THEN att[i]
        ELSE ApplyMove(att[i], final_moves[att[i].id])]

\* Step 4 of _step_once: apply the moves and mark the arrivals.
ApplyMoves(att, final_moves, exits) ==
    [i \in 1..Len(att) |->
        IF att[i].reached THEN att[i]
        ELSE LET b == ApplyMove(att[i], final_moves[att[i].id])
             IN  IF b.pos \in exits THEN [b EXCEPT !.reached = TRUE] ELSE b]

\* The attendees and the newly completed ids after one _step_once.
StepResult(g, dist, att) ==
    LET exits    == Exits(g)
        walkable == WalkableCells(g)
        occupied == OccupiedCells(att)
        decided  == DecideLoop(att, <<>>, 1, dist, walkable, exits, occupied)
        final    == ResolveLoop(SortedByAid(decided.desired), 1, <<>>, <<>>, occupied)
        moved    == ApplyMoves(decided.att, final, exits)
    IN  [att |-> moved,
         completed |-> {moved[i].id : i \in {j \in 1..Len(att) :
                                               ~decided.att[j].reached /\ moved[j].reached}}]

\* Mutation: only a missing entry is rejected.
ConstructionFailsWithoutEntryOnly(g) == Entries(g) = {}

\* if not self.entries or not self.exits: raise ValueError
ConstructionFails(g) == Entries(g) = {} \/ Exits(g) = {}

\* The orders list(self.entries) can come in.
EntryOrders(g) ==
    {s \in [1..Cardinality(Entries(g)) -> Entries(g)] :
        \A i, j \in DOMAIN s : i # j => s[i] # s[j]}

\* Simulation.__init__ on the map g with config.n_attendees = n.
CoreConstruct(g, n, order) ==
    /\ grid = g
    /\ n_attendees = n
    /\ IF ConstructionFails(g)
       THEN /\ core_error = "ValueError"
            /\ entry_list = <<>>
            /\ core_attendees = <<>>
            /\ distance_map = <<>>
       ELSE /\ core_error = "none"
            /\ entry_list = order
            /\ distance_map = BfsDistanceToExits(g, Exits(g))
            /\ core_attendees =
                  [i \in 1..n |-> CoreAttendee(i - 1, order[((i - 1) % Len(order)) + 1])]
    /\ time_step = 0
    /\ completed_ids = {}

InitCore ==
    /\ LifecycleIdle
    /\ ConverterIdle
    /\ ValidatorIdle
    /\ \E g \in Grids, n \in 0..MaxCoreAttendees :
          \E order \in EntryOrders(g) : CoreConstruct(g, n, order)

\* Mutation: completed_ids is replaced by the arrivals of this step.
StepOnceForgettingCompleted ==
    /\ core_error = "none"
    /\ time_step < MaxTimeStep
    /\ LET r == StepResult(grid, distance_map, core_attendees)
       IN  /\ core_attendees' = r.att
           /\ completed_ids' = r.completed
    /\ time_step' = time_step + 1
    /\ UNCHANGED <<grid, n_attendees, entry_list, distance_map, core_error>>
    /\ UNCHANGED <<lifecycleVars, converterVars, validatorVars>>

\* Simulation._step_once.
StepOnce ==
    /\ core_error = "none"
    /\ time_step < MaxTimeStep
    /\ LET r == StepResult(grid, distance_map, core_attendees)
       IN  /\ core_attendees' = r.att
           /\ completed_ids' = completed_ids \cup r.completed
    /\ time_step' = time_step + 1
    /\ UNCHANGED <<grid, n_attendees, entry_list, distance_map, core_error>>
    /\ UNCHANGED <<lifecycleVars, converterVars, validatorVars>>

\* Simulation.stats(); the quotients as numerator and denominator.
RECURSIVE SumStepsTaken(_)
SumStepsTaken(att) ==
    IF att = <<>> THEN 0 ELSE Head(att).steps_taken + SumStepsTaken(Tail(att))

Stats ==
    LET completed == Cardinality(completed_ids)
        total     == Len(core_attendees)
    IN  [time_step |-> time_step,
         completed |-> completed,
         total |-> total,
         active_attendees |-> total - completed,
         efficiency |-> IF total # 0 THEN [num |-> completed, den |-> total]
                        ELSE [num |-> 0, den |-> 1],
         avg_steps |-> IF total > 0 THEN [num |-> SumStepsTaken(core_attendees), den |-> total]
                       ELSE [num |-> 0, den |-> 1],
         avg_wait_time_mins |-> time_step \div 2,
         peak_congestion_percent |-> IF total # 0 THEN [num |-> total - completed, den |-> total]
                                     ELSE [num |-> 1, den |-> 1]]

NextCore == StepOnce

\* What a call of _step_once does to the step counter. Under NextCore every
\* step that changes time_step is a StepOnce step, and StepOnce is enabled
\* exactly when StepCounted is.
StepCounted ==
    /\ core_error = "none"
    /\ time_step < MaxTimeStep
    /\ time_step' = time_step + 1

\* run() and the step-by-step generator call _step_once one call after the
\* other, so a step that can be taken is taken: weak fairness of StepOnce,
\* stated on the step counter.
SpecCore == InitCore /\ [][NextCore]_vars /\ WF_time_step(StepCounted)

\* ------------------------------------ TimeConverter (time_converter.py)
\* The "HH:MM" strings of a day.
TimesOfDay == (0..23) \X (0..59)

\* The start times tried: midnight, mid-morning and the last minute of the day.
StartTimes == {<<0, 0>>, <<9, 30>>, <<23, 59>>}

\* datetime.strptime(s, "%H:%M"), in minutes since midnight of its day.
ParseTime(s) == s[1] * 60 + s[2]

\* strftime("%H:%M") of the moment x minutes after midnight of the start day
\* (x may lie on another day; seconds are dropped).
FormatTime(x) == <<(x % 1440) \div 60, (x % 1440) % 60>>

\* Mutation: the step is the difference in minutes, whatever the scale.
ToStepUnscaled(start, scale, s) == ParseTime(s) - ParseTime(start)

\* to_step: delta_minutes is a whole number of minutes, so int() of its
\* product with the integer scale factor is that product.
ToStep(start, scale, s) == (ParseTime(s) - ParseTime(start)) * scale

\* to_real_time: start_time + timedelta(minutes=step / scale_factor), printed
\* without its seconds (\div rounds down, as dropping the seconds does).
ToRealTime(start, scale, step) == FormatTime(ParseTime(start) + (step \div scale))

\* TimeConverter(start_time_str, scale_factor).
InitConverter ==
    /\ LifecycleIdle
    /\ CoreIdle
    /\ ValidatorIdle
    /\ start_time \in StartTimes
    /\ converter_scale_factor \in ScaleFactors
    /\ time_str = <<>>
    /\ step_number = 0
    /\ real_time = <<>>

\* to_step(time_str).
ToStepCall ==
    /\ start_time # <<>>
    /\ \E s \in TimesOfDay :
          /\ time_str' = s
          /\ step_number' = ToStep(start_time, converter_scale_factor, s)
    /\ real_time' = <<>>
    /\ UNCHANGED <<start_time, converter_scale_factor, lifecycleVars, coreVars,
                   validatorVars>>

\* to_real_time(step) on the step the last to_step call returned.
ToRealTimeCall ==
    /\ time_str # <<>>
    /\ real_time = <<>>
    /\ real_time' = ToRealTime(start_time, converter_scale_factor, step_number)
    /\ UNCHANGED <<start_time, converter_scale_factor, time_str, step_number,
                   lifecycleVars, coreVars, validatorVars>>

NextConverter == ToStepCall \/ ToRealTimeCall

SpecConverter == InitConverter /\ [][NextConverter]_vars

\* ------------------------------ validate_ai_suggestions (ai_validation.py)
\* dict.get(k, default).
Get(d, k, default) == IF k \in DOMAIN d THEN d[k] ELSE default

\* d[k] = v on a dictionary.
Put(d, k, v) == [x \in DOMAIN d \cup {k} |-> IF x = k THEN v ELSE d[x]]

\* The dictionary with the keys of ks that carry a value in full (a value of
\* -1 in full stands for a key left out).
Dict(full, ks) == [k \in {x \in ks : full[x] >= 0} |-> full[k]]

\* The body of a failed rule: is_valid = False, an issue is appended (the
\* issue is kept as the name of its rule) and the suggestion is overwritten.
Correct(results, rule, key, value) ==
    [is_valid |-> FALSE,
     issues |-> Append(results.issues, rule),
     corrected_suggestions |-> Put(results.corrected_suggestions, key, value)]

\* max(10, int(wait_time - 10) * 2), for a whole number of minutes.
MinStaffIncrease(wait_time) ==
    IF (wait_time - 10) * 2 > 10 THEN (wait_time - 10) * 2 ELSE 10

\* int(attendees * 0.7), for the attendee counts tried (whole hundreds).
MaxSafeCapacity(n) == (n * 7) \div 10

\* validate_ai_suggestions(simulation_data, ai_suggestions, current_config):
\* the five rules in the order of the code, each reading the suggestion of
\* the AI and writing the corrected copy. The result is the returned
\* dictionary in a tuple, or the empty tuple when attendees / recommended_staff
\* divides by zero.
ValidateAiSuggestions(sim, sug, cfg) ==
    LET congestion == Get(sim, "peak_congestion_percent", 0)
        wait_time == Get(sim, "real_wait_time_mins", 0)
        entry_rate == Get(sim, "entry_success_rate", 100)
        current_entrance_gates == Get(cfg, "entrance_gates", 2)
        current_exit_gates == Get(cfg, "exit_gates", 2)
        current_staff == Get(cfg, "staff_count", 20)
        n == Get(cfg, "attendees", 2000)
        recommended_entrance ==
            Get(sug, "recommended_entrance_gates", current_entrance_gates)
        recommended_staff == Get(sug, "recommended_staff", current_staff)
        recommended_capacity == Get(sug, "optimal_attendee_capacity", n)
        recommended_exit == Get(sug, "recommended_exit_gates", current_exit_gates)
        r0 == [is_valid |-> TRUE, issues |-> <<>>, corrected_suggestions |-> sug]
        r1 == IF /\ congestion > 70 \/ entry_rate < 50
                 /\ recommended_entrance <= current_entrance_gates
              THEN Correct(r0, "entrance_gates", "recommended_entrance_gates",
                           IF current_entrance_gates + 2 < 6
                           THEN current_entrance_gates + 2 ELSE 6)
              ELSE r0
        r2 == IF /\ wait_time > 10
                 /\ recommended_staff < current_staff + MinStaffIncrease(wait_time)
              THEN Correct(r1, "staff", "recommended_staff",
                           current_staff + MinStaffIncrease(wait_time))
              ELSE r1
        r3 == IF /\ congestion > 80 /\ entry_rate < 30
                 /\ recommended_capacity > MaxSafeCapacity(n)
              THEN Correct(r2, "capacity", "optimal_attendee_capacity",
                           MaxSafeCapacity(n))
              ELSE r2
        r4 == IF recommended_exit < recommended_entrance
              THEN Correct(r3, "exit_gates", "recommended_exit_gates",
                           recommended_entrance)
              ELSE r3
        r5 == IF n > 150 * recommended_staff
              THEN Correct(r4, "staff_ratio", "recommended_staff",
                           IF recommended_staff > n \div 150
                           THEN recommended_staff ELSE n \div 150)
              ELSE r4
    IN  IF recommended_staff = 0 THEN <<>> ELSE <<r5>>

\* The simulation metrics tried: congestion below 70, between 70 and 80 and
\* above 80 percent, a wait below and above 10 minutes, an entry rate below
\* 30, below 50 and above; and the empty dictionary.
SimulationData ==
    {[peak_congestion_percent |-> c, real_wait_time_mins |-> w,
      entry_success_rate |-> e] : c \in {60, 75, 90}, w \in {5, 20},
                                  e \in {20, 40, 100}} \cup {<<>>}

\* The event configurations tried, and the empty dictionary.
CurrentConfigs ==
    {[entrance_gates |-> g, exit_gates |-> 2, staff_count |-> st,
      attendees |-> 2000] : g \in {2, 5, 6}, st \in {10, 20}} \cup {<<>>}

SuggestionKeys == {"recommended_entrance_gates", "recommended_exit_gates",
                   "recommended_staff", "optimal_attendee_capacity"}

\* The suggestions of the AI tried; any of the four keys may be left out.
AiSuggestions ==
    {Dict([recommended_entrance_gates |-> g, recommended_exit_gates |-> x,
           recommended_staff |-> st, optimal_attendee_capacity |-> cap],
          SuggestionKeys) :
        g \in {-1, 2, 4, 7}, x \in {-1, 1, 4, 8}, st \in {-1, 0, 10, 30, 40},
        cap \in {-1, 1400, 2000}}

\* The arguments of the call.
InitValidator ==
    /\ LifecycleIdle
    /\ CoreIdle
    /\ ConverterIdle
    /\ simulation_data \in SimulationData
    /\ ai_suggestions \in AiSuggestions
    /\ current_config \in CurrentConfigs
    /\ validation_results = <<>>
    /\ revalidation_results = <<>>
    /\ validation_calls = 0
    /\ validation_error = "none"

\* validate_ai_suggestions(simulation_data, ai_suggestions, current_config).
ValidateCall ==
    /\ validation_calls = 0
    /\ validation_calls' = 1
    /\ validation_results' =
           ValidateAiSuggestions(simulation_data, ai_suggestions, current_config)
    /\ validation_error' =
           IF validation_results' = <<>> THEN "ZeroDivisionError" ELSE "none"
    /\ UNCHANGED <<simulation_data, ai_suggestions, current_config,
                   revalidation_results, lifecycleVars, coreVars, converterVars>>

\* validate_ai_suggestions(simulation_data, corrected_suggestions,
\* current_config), on the corrected suggestions the first call returned.
RevalidateCall ==
    /\ validation_calls = 1
    /\ validation_error = "none"
    /\ validation_calls' = 2
    /\ revalidation_results' =
           ValidateAiSuggestions(simulation_data,
                                 validation_results[1].corrected_suggestions,
                                 current_config)
    /\ validation_error' =
           IF revalidation_results' = <<>> THEN "ZeroDivisionError" ELSE "none"
    /\ UNCHANGED <<simulation_data, ai_suggestions, current_config,
                   validation_results, lifecycleVars, coreVars, converterVars>>

NextValidator == ValidateCall \/ RevalidateCall

SpecValidator == InitValidator /\ [][NextValidator]_vars

\* ================================================================ claims
Attendees == 1..Len(attendees)
StatusCount(att, st) == Cardinality({i \in 1..Len(att) : att[i].status = st})
HasWallNeighbor(m, x, y) ==
    \E k \in 1..Len(NeighborOffsets) :
        /\ InBounds(m, x + NeighborOffsets[k][1], y + NeighborOffsets[k][2])
        /\ Cell(m, x + NeighborOffsets[k][1], y + NeighborOffsets[k][2]) = WALL

\* C1: after construction and after any number of run_lifecycle_step calls,
\* every attendee's position lies inside the map and is not a wall cell.
C1_PositionInBoundsNotWall ==
    \A i \in Attendees :
        /\ 0 <= attendees[i].x /\ attendees[i].x < Rows(map_data)
        /\ 0 <= attendees[i].y /\ attendees[i].y < Cols(map_data)
        /\ Cell(map_data, attendees[i].x, attendees[i].y) # WALL

\* An attendee has left its entrance and stands next to a wall cell.
C1_Witness ==
    \E i \in Attendees :
        /\ current_step > 0
        /\ Cell(map_data, attendees[i].x, attendees[i].y) # ENTRANCE
        /\ HasWallNeighbor(map_data, attendees[i].x, attendees[i].y)

Exited(att) == {i \in 1..Len(att) : att[i].status = "exited"}
NotExited(att) == {i \in 1..Len(att) : att[i].status # "exited"}

\* C2: across run_lifecycle_step calls the number of Exited attendees never
\* decreases, and Exited plus non-Exited attendees equal the configured total.
C2_ExitedConservation ==
    [][/\ Cardinality(Exited(attendees')) >= Cardinality(Exited(attendees))
       /\ Cardinality(Exited(attendees')) + Cardinality(NotExited(attendees'))
            = total_attendees']_vars

\* An edge of the transition DAG, or no change.
AllowedTransition(s, t, phase) ==
    \/ s = t
    \/ s = "moving" /\ t \in {"reached_goal", "mingling", "leaving_early", "evacuating"}
    \/ s \in {"mingling", "leaving_early", "evacuating"} /\ t = "exited"
    \/ s # "exited" /\ t = "evacuating" /\ phase = "evacuation"

Statuses ==
    {"moving", "reached_goal", "mingling", "leaving_early", "evacuating", "exited"}

\* A step reassigns and then moves: it may take a status along two edges.
AllowedInOneStep(s, t, phase) ==
    \E u \in Statuses : AllowedTransition(s, u, phase) /\ AllowedTransition(u, t, phase)

\* C3: every change of an attendee's status between two consecutive steps
\* follows the transition DAG; in particular Exited never changes again and
\* Evacuating only ever changes to Exited.
C3_StatusTransitionsFollowDag ==
    [][\A i \in Attendees :
          AllowedInOneStep(attendees[i].status, attendees'[i].status,
                           GetCurrentPhase(current_step', timeline_steps))]_vars

\* C4: after any step whose phase is Evacuation, every attendee's status is
\* Evacuating or Exited.
C4_EvacuationStatusesOnly ==
    current_phase = "evacuation"
        => \A i \in Attendees : attendees[i].status \in {"evacuating", "exited"}

SingleExit(m) == Len(FindKeyLocations(m).exits) = 1
WallFree(m) == Argwhere(m, WALL) = <<>>
EvacuationFromFirstStep ==
    timeline_steps.entry_rush_end < 1 /\ timeline_steps.mid_event_end < 1

\* n >= 2 * sqrt(rows^2 + cols^2), the grid diagonal.
AtLeastTwiceDiagonal(n, m) == n * n >= 4 * (Rows(m) * Rows(m) + Cols(m) * Cols(m))

\* C6: with Evacuation from the first step on a grid with a single exit and
\* no obstruction, every attendee has status Exited within 2 x grid_diagonal steps.
C6_AllExitedWithinTwiceDiagonal ==
    (/\ EvacuationFromFirstStep
     /\ SingleExit(map_data) /\ WallFree(map_data)
     /\ AtLeastTwiceDiagonal(current_step, map_data))
        => \A i \in Attendees : attendees[i].status = "exited"

\* C7: an attendee whose status is Evacuating or LeavingEarly and that moves
\* onto an exit-gate cell in a step, its goal or not, is Exited after that step.
C7_ExitGateMeansExited ==
    [][\A i \in Attendees :
          (/\ attendees[i].status \in {"evacuating", "leaving_early"}
           /\ Pos(attendees'[i]) # Pos(attendees[i])
           /\ Cell(map_data, attendees'[i].x, attendees'[i].y) = EXITGATE)
              => attendees'[i].status = "exited"]_vars

\* The entry success rate of the metrics snapshot, in percent, as the pair
\* numerator / denominator (get_current_metrics: the latest entry, 0 if none).
EntrySuccessRate ==
    IF entry_progress # <<>>
    THEN [num |-> entry_progress[Len(entry_progress)], den |-> total_attendees]
    ELSE [num |-> 0, den |-> 1]

\* C10: the successful-entries counter never exceeds the number of attendees,
\* so the reported entry success rate is within [0, 100].
C10_EntryRateBounded ==
    /\ successful_entries <= Len(attendees)
    /\ 0 <= EntrySuccessRate.num
    /\ EntrySuccessRate.num <= 100 * EntrySuccessRate.den

\* C9: total_wait_time_steps of every attendee after step n+1 is greater than
\* or equal to its value after step n; no operation decreases or resets it.
C9_WaitTimeMonotonic ==
    [][/\ Len(attendees') = Len(attendees)
       /\ \A i \in Attendees :
            attendees'[i].total_wait_time_steps >= attendees[i].total_wait_time_steps]_vars

\* An evacuating attendee carries more waiting steps than the Evacuation phase
\* has had steps: it waited before the evacuation reassigned it.
C9_Witness ==
    \E i \in Attendees :
        /\ current_phase = "evacuation"
        /\ attendees[i].status = "evacuating"
        /\ attendees[i].total_wait_time_steps
             > current_step - Max(timeline_steps.entry_rush_end, timeline_steps.mid_event_end)

PhaseRank(p) ==
    CASE p = "none" -> 0
      [] p = "entry_rush" -> 1
      [] p = "mid_event" -> 2
      [] p = "evacuation" -> 3

\* The phase never moves backwards and Evacuation is terminal.
PhaseNeverReverts ==
    [][PhaseRank(current_phase') >= PhaseRank(current_phase)]_vars

AllReachedGoal ==
    \A i \in Attendees :
        Pos(attendees[i]) = attendees[i].goal /\ attendees[i].status = "reached_goal"

\* C8 as stated: in Scenario A, while the phase stays EntryRush, every attendee
\* stands on its goal with status ReachedGoal within 50 steps, for every choice
\* of goals, processing order and random draws.
C8_AllReachGoalAsStated ==
    current_step >= ScenarioSteps => AllReachedGoal

\* C8 amended: an attendee that is alone in the venue stands on its goal with
\* status ReachedGoal after as many steps as its goal is away from the entrance
\* (the larger of the row and column offsets, well within the 50 steps); and,
\* however many attendees there are, an attendee standing on its goal has
\* status ReachedGoal and a goal_reached_step no later than the current step.
C8_LoneAttendeeReachesGoal ==
    /\ (total_attendees = 1
        /\ current_step >= Max(attendees[1].goal[1], attendees[1].goal[2]))
           => AllReachedGoal
    /\ \A i \in Attendees :
          Pos(attendees[i]) = attendees[i].goal
             => /\ attendees[i].status = "reached_goal"
                /\ 1 <= attendees[i].goal_reached_step
                /\ attendees[i].goal_reached_step <= current_step

\* The lone attendee has walked to a goal two cells away from the entrance.
C8_Witness ==
    /\ total_attendees = 1
    /\ Max(attendees[1].goal[1], attendees[1].goal[2]) = 2
    /\ current_step = 2
    /\ AllReachedGoal

\* a = b for two fractions given as num / den.
RatEq(a, b) == a.num * b.den = b.num * a.den
RatLeq(a, b) == a.num * b.den <= b.num * a.den

\* The open-space cells that hold at least one attendee, and how many each holds.
OccupiedOpenCells(m, att) ==
    {p \in Range(FindKeyLocations(m).open_space) : \E i \in 1..Len(att) : Pos(att[i]) = p}
OccupantCount(att, p) == Cardinality({i \in 1..Len(att) : Pos(att[i]) = p})

\* The number of attendees standing on open-space cells.
OnOpenSpace(m, att) ==
    Cardinality({i \in 1..Len(att) : Cell(m, att[i].x, att[i].y) = OPEN})

\* The congestion percentage as stated: the mean occupant count of the
\* occupied open-space cells, divided by 3 and saturated at 1, times 100.
StatedCongestion(m, att) ==
    LET k == Cardinality(OccupiedOpenCells(m, att))
        n == OnOpenSpace(m, att)
    IN IF k = 0 THEN [num |-> 0, den |-> 1]
       ELSE IF n >= 3 * k THEN [num |-> 100, den |-> 1]
       ELSE [num |-> 100 * n, den |-> 3 * k]

\* C11: the congestion percentage of every metrics snapshot is within
\* [0, 100]: 0 when no open-space cell holds an attendee, and otherwise the
\* mean per-occupied-cell attendee count divided by 3, saturated at 1, times 100.
C11_CongestionAsStated ==
    metrics # <<>> =>
        /\ RatLeq([num |-> 0, den |-> 1], metrics[1].peak_congestion_percent)
        /\ RatLeq(metrics[1].peak_congestion_percent, [num |-> 100, den |-> 1])
        /\ RatEq(metrics[1].peak_congestion_percent, StatedCongestion(map_data, attendees))

\* The cells an attendee can walk to from the cells of S: the closure of S
\* under the steps to in-bounds, non-wall neighbours.
WalkableNeighbors(m, p) ==
    {<<p[1] + NeighborOffsets[k][1], p[2] + NeighborOffsets[k][2]>> :
        k \in {j \in 1..Len(NeighborOffsets) :
                 Walkable(m, p[1] + NeighborOffsets[j][1], p[2] + NeighborOffsets[j][2])}}
RECURSIVE ReachableCells(_, _)
ReachableCells(m, S) ==
    LET T == S \cup UNION {WalkableNeighbors(m, p) : p \in S}
    IN IF T = S THEN S ELSE ReachableCells(m, T)

\* The attendee's goal is enclosed by walls: no walk leads from its cell to it.
GoalUnreachable(m, a) == a.goal \notin ReachableCells(m, {Pos(a)})

\* C12 as stated: an attendee whose goal is enclosed by walls never causes an
\* error and its total_wait_time_steps grows with the steps: after N steps it
\* is about N (read generously here: at least half of N at the end of the run).
C12_UnreachableGoalWaitAsStated ==
    /\ error = "none"
    /\ \A i \in Attendees :
          (GoalUnreachable(map_data, attendees[i]) /\ current_step = RushSteps)
             => 2 * attendees[i].total_wait_time_steps >= current_step

\* C12 amended: an attendee whose goal is enclosed by walls never causes an
\* error, and its total_wait_time_steps counts the steps in which it was
\* blocked: alone in the venue it is blocked in every step when its cell has
\* no walkable neighbour (N after N steps), and otherwise it keeps moving to
\* the free neighbour nearest the goal and its wait time stays 0.
C12_UnreachableGoalWait ==
    /\ error = "none"
    /\ \A i \in Attendees :
          GoalUnreachable(map_data, attendees[i])
             => /\ attendees[i].total_wait_time_steps <= current_step
                /\ attendees[i].status = "moving"
                /\ total_attendees = 1 =>
                      attendees[i].total_wait_time_steps =
                         IF WalkableNeighbors(map_data, Pos(attendees[i])) = {}
                         THEN current_step ELSE 0

\* The lone attendee of MapF has walked back and forth before the wall for the
\* whole run without a single waiting step.
C12_Witness ==
    /\ total_attendees = 1
    /\ current_step = RushSteps
    /\ GoalUnreachable(map_data, attendees[1])
    /\ WalkableNeighbors(map_data, Pos(attendees[1])) # {}
    /\ attendees[1].total_wait_time_steps = 0
    /\ error = "none"

\* C13: constructing the simulation on a venue map with no active entrance
\* cell or no exit cell fails with a configuration error at construction
\* time; no run starts and no step is taken on such a venue.
C13_GatelessVenueFailsConstruction ==
    (ActiveEntrances(map_data, open_gates) = <<>> \/ locations.exits = <<>>)
        => error = "ConfigurationError" /\ current_step = 0

\* C14: if the destination list is empty when the run enters MidEvent, the
\* first MidEvent step fails with a fatal error instead of assigning goals,
\* for every outcome of the leave-early rolls.
C14_NoDestinationIsFatal ==
    (/\ locations.destinations = <<>>
     /\ current_step >= 1
     /\ GetCurrentPhase(current_step, timeline_steps) = "mid_event")
        => /\ error # "none"
           /\ \A i \in Attendees :
                 attendees[i].status \notin {"mingling", "leaving_early"}

\* The attendees, counters and metrics a step leaves behind when the goal
\* update yielded att and the movement pass processes att in the given order
\* with the given draws.
StepOutcome(att, order, draws) ==
    LET M == MoveAttendeesSmart(att, order, draws, current_step + 1, map_data,
                                successful_entries, entry_progress, max_wait_time)
    IN <<M.att, M.se, M.prog, M.mw,
         GetCurrentMetrics(map_data, M.att, M.prog, total_attendees, M.mw, scale_factor)>>

\* C15: within a step attendees are processed in a fixed, reproducible order,
\* so two runs that are in the same state and are fed the same leave-early
\* and blocking draws leave the step with identical attendee positions,
\* statuses and metrics.
C15_StepDeterministicGivenDraws ==
    (error = "none" /\ current_step < max_steps) =>
        \A rolls \in RollChoices(attendees,
                                 GetCurrentPhase(current_step + 1, timeline_steps)) :
            LET ug == UpdateGoalsForPhase(attendees,
                                          GetCurrentPhase(current_step + 1, timeline_steps),
                                          rolls, locations)
            IN (ug.err = "none" /\ MoveError(ug.att) = "none") =>
                  \A draws \in DrawChoices(ug.att, map_data) :
                     \A o1, o2 \in Orders(Len(ug.att)) :
                        StepOutcome(ug.att, o1, draws) = StepOutcome(ug.att, o2, draws)

\* C19: the wait-time distribution of a metrics snapshot is a histogram over
\* the bins [0,5), [5,10), [10,15) and [15,inf) that counts every attendee
\* exactly once: the bin counts sum to the number of attendees.
C19_DistributionCountsEveryAttendee ==
    metrics # <<>> =>
        SumSeq(metrics[1].wait_time_distribution) = Len(attendees)

CoreIds == 1..Len(core_attendees)

\* C16: for the BFS engine, after any number of _step_once calls stats()
\* reports total equal to the configured n_attendees, completed plus
\* active_attendees equal to total (completed counting the attendees marked
\* reached, active_attendees the others), and completed never decreases from
\* one step to the next.
C16_StatsConservation ==
    /\ [](core_error = "none" =>
            /\ Stats.total = n_attendees
            /\ Stats.completed + Stats.active_attendees = Stats.total
            /\ Stats.completed = Cardinality({i \in CoreIds : core_attendees[i].reached})
            /\ Stats.active_attendees =
                  Cardinality({i \in CoreIds : ~core_attendees[i].reached}))
    /\ [][Stats'.completed >= Stats.completed /\ Stats'.total = Stats.total]_vars

\* Steps have been taken; some attendees are through and some are still on
\* their way.
C16_Witness ==
    /\ core_error = "none"
    /\ time_step >= 2
    /\ Stats.completed >= 1
    /\ Stats.active_attendees >= 1

\* The cells that can be reached from the cells S by 4-neighbour steps over
\* walkable cells.
RECURSIVE WalkableClosure(_, _)
WalkableClosure(g, S) ==
    LET T == S \cup {q \in WalkableCells(g) :
                        \E p \in S : \E k \in 1..4 : Neighbors4(p)[k] = q}
    IN  IF T = S THEN S ELSE WalkableClosure(g, T)

EveryEntryReachesExit(g) ==
    \A e \in Entries(g) : WalkableClosure(g, {e}) \cap Exits(g) # {}

CoreAllReached ==
    /\ Cardinality(completed_ids) = Len(core_attendees)
    /\ \A i \in CoreIds : core_attendees[i].reached

\* C17: on a map where every entry cell has a 4-neighbour path of walkable
\* cells to some exit, the loop of run() comes to its end: every attendee gets
\* marked reached and completed equals total, whatever the conflicts.
C17_RunTerminates ==
    (core_error = "none" /\ EveryEntryReachesExit(grid)) => <>CoreAllReached

\* Three attendees from the two entries that compete for the same cell are
\* all through.
C17_Witness ==
    /\ grid = GridC
    /\ Len(core_attendees) = 3
    /\ time_step > 0
    /\ CoreAllReached

\* C18: every successfully constructed core.Simulation has at least one entry
\* cell and one exit cell; on a map without an 'E' cell or without an 'O' cell
\* the constructor raises an error and no attendee is spawned.
C18_ConstructionNeedsEntryAndExit ==
    /\ core_error = "none" => Entries(grid) # {} /\ Exits(grid) # {}
    /\ (Entries(grid) = {} \/ Exits(grid) = {}) =>
          /\ core_error # "none"
          /\ core_attendees = <<>>
          /\ time_step = 0

\* Construction was tried for some attendees on a map that has an entry but no
\* exit, and failed.
C18_Witness ==
    /\ core_error = "ValueError"
    /\ n_attendees > 0
    /\ Entries(grid) # {}
    /\ Exits(grid) = {}
    /\ core_attendees = <<>>

\* C20: to_real_time is the inverse of to_step: for every time of the event
\* day, before or after the start time, and every integer scale factor >= 1,
\* to_step gives (time - start time in minutes) * scale factor and
\* to_real_time of that step gives the time back.
C20_RealTimeInvertsToStep ==
    time_str # <<>> =>
        /\ step_number = (ParseTime(time_str) - ParseTime(start_time)) * converter_scale_factor
        /\ real_time # <<>> => real_time = time_str

\* A time before the start (a negative step) at a scale factor above 1 has
\* been converted and converted back.
C20_Witness ==
    /\ time_str # <<>>
    /\ real_time # <<>>
    /\ step_number < 0
    /\ converter_scale_factor >= 2

\* ------------------------------------------- claims on the movement step
\* No attendee stands on an open-space cell (there may be no attendee at all).
NobodyOnOpenSpace ==
    \A i \in 1..Len(attendees) : Cell(map_data, attendees[i].x, attendees[i].y) # OPEN

\* C21: with zero attendees, or with no attendee standing on an open-space
\* cell, a step that has been advanced raised no error, and the metrics
\* snapshot taken then reports 0 for congestion, average and maximum wait
\* time and entry success rate.
C21_NobodyOnOpenSpaceGivesZeroMetrics ==
    (current_step > 0 /\ NobodyOnOpenSpace) =>
        /\ error = "none"
        /\ LET snapshot == GetCurrentMetrics(map_data, attendees, entry_progress,
                                             total_attendees, max_wait_time, scale_factor)
           IN /\ snapshot.peak_congestion_percent.num = 0
              /\ snapshot.real_wait_time_mins = 0
              /\ snapshot.max_wait_time_mins = 0
              /\ snapshot.entry_success_rate.num = 0

\* The attendees as _update_goals_for_phase left them in the step just taken.
AfterUpdateGoals == last_step[1].before

\* a and b agree on what _update_goals_for_phase may assign.
SameAssignment(a, b) ==
    /\ a.goal = b.goal
    /\ a.status = b.status
    /\ a.goal_reached_step = b.goal_reached_step

\* The step being taken and the one before it are both in the given phase.
LaterStepOfPhase(phase) ==
    /\ current_step >= 1
    /\ GetCurrentPhase(current_step, timeline_steps) = phase
    /\ GetCurrentPhase(current_step + 1, timeline_steps) = phase
    /\ last_step' # <<>>
    /\ last_step'[1].step = current_step + 1

\* C22: the mid-event reassignment (leave-early roll included) is applied on
\* the first mid-event step only: on every later mid-event step
\* _update_goals_for_phase changes no attendee's goal, status or
\* goal_reached_step, whatever the statuses have become.
C22_ReassignedOnFirstMidEventStepOnly ==
    [][LaterStepOfPhase("mid_event") =>
          \A i \in 1..Len(attendees) :
              SameAssignment(attendees[i], AfterUpdateGoals'[i])]_vars

\* C23: the evacuation override (goal := nearest exit, status := evacuating)
\* is applied on the first evacuation step only: on every later evacuation
\* step _update_goals_for_phase changes no attendee's goal, status or
\* goal_reached_step, whatever the status of any attendee has become.
C23_EvacuationOverrideOnFirstStepOnly ==
    [][LaterStepOfPhase("evacuation") =>
          \A i \in 1..Len(attendees) :
              SameAssignment(attendees[i], AfterUpdateGoals'[i])]_vars

\* The cells of the attendees that have not exited.
OccupiedByPresent(att) ==
    {Pos(att[i]) : i \in {j \in 1..Len(att) : att[j].status # "exited"}}

\* C24: once an attendee's status is exited, it is left out of the occupancy
\* snapshot (and so of the claimed cells) of every later step, and its
\* position never changes again.
C24_ExitedLeftOutAndNeverMoved ==
    [][last_step' # <<>> =>
          /\ Occupied(AfterUpdateGoals') = OccupiedByPresent(attendees)
          /\ \A i \in 1..Len(attendees) :
                attendees[i].status = "exited" => Pos(attendees'[i]) = Pos(attendees[i])]_vars

\* A movement pass has run in the step just taken.
MovementObserved == last_step # <<>> /\ error = "none"

\* The attendees that changed cell in the step just taken.
Movers == {i \in 1..Len(attendees) : Pos(attendees[i]) # Pos(AfterUpdateGoals[i])}

\* C25: within one movement step no two attendees move into the same cell,
\* whatever the processing order.
C25_NoTwoMoveIntoSameCell ==
    MovementObserved =>
        \A i, j \in Movers : i # j => Pos(attendees[i]) # Pos(attendees[j])

\* Two attendees with the same goal left the same cell in one step and ended
\* on different cells.
C25_Witness ==
    /\ MovementObserved
    /\ \E i, j \in Movers :
          /\ i # j
          /\ Pos(AfterUpdateGoals[i]) = Pos(AfterUpdateGoals[j])
          /\ AfterUpdateGoals[i].goal = AfterUpdateGoals[j].goal
          /\ Pos(attendees[i]) # Pos(attendees[j])

\* C26: within one movement step no attendee moves into a cell whose occupant
\* stays in place that step (at its goal, without goal, or blocked), whatever
\* the processing order.
C26_NoMoveIntoCellOfStayingOccupant ==
    MovementObserved =>
        \A i \in Movers : \A j \in (1..Len(attendees)) \ Movers :
            Pos(attendees[i]) # Pos(attendees[j])

\* The place of attendee i in the shuffled order of the step just taken.
TurnOf(i) == CHOOSE k \in 1..Len(last_step[1].order) : last_step[1].order[k] = i

\* The cells claimed when attendee i's turn came in the step just taken: those
\* of the attendees that stay, and those claimed by the attendees processed
\* before it.
ClaimedAtTurn(i) ==
    MoveFrom(1,
             [att |-> AfterUpdateGoals,
              occ |-> {Pos(AfterUpdateGoals[j]) :
                          j \in {k \in 1..Len(AfterUpdateGoals) : Stays(AfterUpdateGoals[k])}},
              se |-> 0, prog |-> <<>>, mw |-> 0],
             SubSeq(last_step[1].order, 1, TurnOf(i) - 1),
             last_step[1].draws, Occupied(AfterUpdateGoals), last_step[1].step, map_data).occ

\* The 8 cells around p.
Neighbours8(p) ==
    {q \in ((p[1] - 1)..(p[1] + 1)) \X ((p[2] - 1)..(p[2] + 1)) : q # p}

\* The neighbours attendee i could move to at its turn: in bounds, not a
\* wall, not claimed.
FreeNeighbours(i) ==
    {q \in Neighbours8(Pos(AfterUpdateGoals[i])) :
        /\ 0 <= q[1] /\ q[1] < Len(map_data)
        /\ 0 <= q[2] /\ q[2] < Len(map_data[1])
        /\ map_data[q[1] + 1][q[2] + 1] # WALL
        /\ q \notin ClaimedAtTurn(i)}

\* The local density at attendee i's cell in the pre-step snapshot, as the
\* pair of the occupied and of all the non-wall cells of the radius-2 window.
SnapshotDensity(i) ==
    LET p == Pos(AfterUpdateGoals[i])
        window == {q \in ((p[1] - 2)..(p[1] + 2)) \X ((p[2] - 2)..(p[2] + 2)) :
                      /\ 0 <= q[1] /\ q[1] < Len(map_data)
                      /\ 0 <= q[2] /\ q[2] < Len(map_data[1])
                      /\ map_data[q[1] + 1][q[2] + 1] # WALL}
        occupied == {q \in window : \E j \in 1..Len(AfterUpdateGoals) :
                                        Pos(AfterUpdateGoals[j]) = q}
    IN [occupied |-> Cardinality(occupied), cells |-> Cardinality(window)]

\* Attendee i wanted to move in the step just taken.
WantsToMove(i) ==
    /\ AfterUpdateGoals[i].goal # <<>>
    /\ Pos(AfterUpdateGoals[i]) # AfterUpdateGoals[i].goal

\* Density hesitation: the density exceeds 0.6 and the draw (in hundredths)
\* is below it.
Hesitates(i) ==
    LET d == SnapshotDensity(i)
    IN /\ WantsToMove(i)
       /\ 10 * d.occupied > 6 * d.cells
       /\ last_step[1].draws[i] * d.cells < 100 * d.occupied

\* Attendee i was blocked in the step just taken.
Blocked(i) == WantsToMove(i) /\ (Hesitates(i) \/ FreeNeighbours(i) = {})

\* C27: in each step an attendee's total_wait_time_steps goes up by exactly 1
\* if it was blocked in that step (density hesitation or no free neighbour)
\* and is unchanged otherwise (it moved, is at its goal or has no goal); a
\* blocked attendee's position is unchanged.
C27_WaitCountsBlockedSteps ==
    MovementObserved =>
        \A i \in 1..Len(attendees) :
            IF Blocked(i)
            THEN /\ attendees[i].total_wait_time_steps
                       = AfterUpdateGoals[i].total_wait_time_steps + 1
                 /\ Pos(attendees[i]) = Pos(AfterUpdateGoals[i])
            ELSE attendees[i].total_wait_time_steps
                       = AfterUpdateGoals[i].total_wait_time_steps

\* In one step an attendee hesitated although a neighbour was free, and
\* another, which did not hesitate, found no free neighbour for the second
\* time.
C27_Witness ==
    /\ MovementObserved
    /\ \E i, j \in 1..Len(attendees) :
          /\ Hesitates(i) /\ FreeNeighbours(i) # {}
          /\ attendees[i].total_wait_time_steps = 1
          /\ ~Hesitates(j) /\ WantsToMove(j) /\ FreeNeighbours(j) = {}
          /\ attendees[j].total_wait_time_steps = 2

\* Attendee i moved onto its goal in the step just taken, goal_reached_step
\* being unset.
Arrived(i) ==
    /\ i \in Movers
    /\ Pos(attendees[i]) = AfterUpdateGoals[i].goal
    /\ AfterUpdateGoals[i].goal_reached_step = NoneStep

\* C28: when an attendee's new position equals its goal and goal_reached_step
\* is still unset, goal_reached_step is set to the current step; its status
\* becomes reached_goal only if it was moving: a mingling, leaving_early or
\* evacuating attendee that arrives keeps its status, unless exit handling
\* makes it exited.
C28_ArrivalKeepsPhaseStatus ==
    MovementObserved =>
        \A i \in 1..Len(attendees) :
            Arrived(i) =>
                /\ attendees[i].goal_reached_step = current_step
                /\ IF AfterUpdateGoals[i].status = "moving"
                   THEN attendees[i].status = "reached_goal"
                   ELSE attendees[i].status \in {AfterUpdateGoals[i].status, "exited"}

\* C29: an attendee that wants to move is held back by density only when the
\* local density at its cell (occupied non-wall cells over non-wall cells of
\* the radius-2 window, in the pre-step snapshot) exceeds 0.6 and the draw is
\* below that density, and then it is held back whatever space there is; when
\* the density is at most 0.6 and a free neighbour exists it moves in that
\* step, and when the density is 1 it is always blocked.
C29_DensityHesitation ==
    MovementObserved =>
        \A i \in 1..Len(attendees) :
            WantsToMove(i) =>
                LET d == SnapshotDensity(i)
                IN /\ (i \notin Movers /\ FreeNeighbours(i) # {}) => Hesitates(i)
                   /\ Hesitates(i) => i \notin Movers
                   /\ (10 * d.occupied <= 6 * d.cells /\ FreeNeighbours(i) # {})
                          => i \in Movers
                   /\ d.occupied = d.cells => i \notin Movers

\* An attendee at density 1 drew the highest value, had a free neighbour and
\* was blocked all the same.
C29_Witness ==
    /\ MovementObserved
    /\ \E i \in 1..Len(attendees) :
          /\ WantsToMove(i)
          /\ SnapshotDensity(i).occupied = SnapshotDensity(i).cells
          /\ last_step[1].draws[i] = 99
          /\ FreeNeighbours(i) # {}
          /\ i \notin Movers
          /\ attendees[i].total_wait_time_steps
                 = AfterUpdateGoals[i].total_wait_time_steps + 1

\* The squared Euclidean distance from cell q to attendee i's goal.
GoalDistance2(i, q) ==
    LET g == AfterUpdateGoals[i].goal
    IN (q[1] - g[1]) * (q[1] - g[1]) + (q[2] - g[2]) * (q[2] - g[2])

\* The place of neighbour q of attendee i in the enumeration dx = -1, 0, 1
\* and, for each dx, dy = -1, 0, 1.
EnumerationRank(i, q) ==
    3 * (q[1] - AfterUpdateGoals[i].x + 1) + (q[2] - AfterUpdateGoals[i].y + 1)

\* C30: a moving attendee's new cell is one of its 8 neighbours that is in
\* bounds, not a wall and not yet claimed in this step, and it is the one
\* nearest (Euclidean) to the goal, ties going to the first candidate in the
\* enumeration order dx from -1 to 1, then dy from -1 to 1; an attendee that
\* wants to move and has no such neighbour is blocked.
C30_MovesToFirstNearestFreeNeighbour ==
    MovementObserved =>
        \A i \in 1..Len(attendees) :
            /\ i \in Movers =>
                  /\ Pos(attendees[i]) \in FreeNeighbours(i)
                  /\ \A q \in FreeNeighbours(i) :
                        \/ GoalDistance2(i, Pos(attendees[i])) < GoalDistance2(i, q)
                        \/ /\ GoalDistance2(i, Pos(attendees[i])) = GoalDistance2(i, q)
                           /\ EnumerationRank(i, Pos(attendees[i])) <= EnumerationRank(i, q)
            /\ (WantsToMove(i) /\ FreeNeighbours(i) = {}) =>
                  /\ i \notin Movers
                  /\ attendees[i].total_wait_time_steps
                         = AfterUpdateGoals[i].total_wait_time_steps + 1

\* An attendee had two free neighbours equally near to its goal, nearer than
\* any other, and moved to the one that comes first in the enumeration.
C30_Witness ==
    /\ MovementObserved
    /\ \E i \in Movers : \E q \in FreeNeighbours(i) :
          /\ q # Pos(attendees[i])
          /\ GoalDistance2(i, q) = GoalDistance2(i, Pos(attendees[i]))
          /\ EnumerationRank(i, Pos(attendees[i])) < EnumerationRank(i, q)

\* ------------------------------------------- claims on goals and staying
\* The exit cells of the venue.
ExitCells ==
    {q \in (0..(Len(map_data) - 1)) \X (0..(Len(map_data[1]) - 1)) :
        map_data[q[1] + 1][q[2] + 1] = EXITGATE}

\* The Manhattan distance between the cells p and q.
Manhattan(p, q) ==
    (IF p[1] >= q[1] THEN p[1] - q[1] ELSE q[1] - p[1])
    + (IF p[2] >= q[2] THEN p[2] - q[2] ELSE q[2] - p[2])

\* Cell p comes before cell q, or is q, in row-major order.
RowMajorLeq(p, q) == p[1] < q[1] \/ (p[1] = q[1] /\ p[2] <= q[2])

\* The step just taken was the first one of the evacuation phase.
EnteredEvacuation ==
    /\ last_step # <<>>
    /\ GetCurrentPhase(last_step[1].step, timeline_steps) = "evacuation"
    /\ \/ last_step[1].step = 1
       \/ GetCurrentPhase(last_step[1].step - 1, timeline_steps) # "evacuation"

\* C31: on entering the evacuation phase every attendee's goal is set to the
\* exit with the smallest Manhattan distance from the attendee's position at
\* that moment, and among the exits at that distance to the first one in
\* row-major order of the map.
C31_EvacuationGoalIsFirstNearestExit ==
    EnteredEvacuation =>
        \A i \in 1..Len(AfterUpdateGoals) :
            LET a == AfterUpdateGoals[i]
            IN /\ a.goal \in ExitCells
               /\ \A q \in ExitCells :
                     \/ Manhattan(Pos(a), a.goal) < Manhattan(Pos(a), q)
                     \/ /\ Manhattan(Pos(a), a.goal) = Manhattan(Pos(a), q)
                        /\ RowMajorLeq(a.goal, q)

\* The evacuation began with an attendee equally far from two exits.
C31_Witness ==
    /\ EnteredEvacuation
    /\ \E i \in 1..Len(AfterUpdateGoals) : \E q \in ExitCells :
          /\ q # AfterUpdateGoals[i].goal
          /\ AfterUpdateGoals[i].status = "evacuating"
          /\ Manhattan(Pos(AfterUpdateGoals[i]), q)
                = Manhattan(Pos(AfterUpdateGoals[i]), AfterUpdateGoals[i].goal)

\* C32: an attendee that has no goal, or stands on its goal, when the movement
\* pass of a step begins does not move in that step: the pass changes neither
\* its position nor its total_wait_time_steps.
C32_AtGoalStaysPut ==
    MovementObserved =>
        \A i \in 1..Len(attendees) :
            ~WantsToMove(i) =>
                /\ Pos(attendees[i]) = Pos(AfterUpdateGoals[i])
                /\ attendees[i].total_wait_time_steps
                       = AfterUpdateGoals[i].total_wait_time_steps

\* An attendee stood on its goal through a step in which a neighbour that
\* wanted its cell found no free cell and waited.
C32_Witness ==
    /\ MovementObserved
    /\ \E i, j \in 1..Len(attendees) :
          /\ ~WantsToMove(i)
          /\ AfterUpdateGoals[i].goal = Pos(attendees[i])
          /\ WantsToMove(j)
          /\ AfterUpdateGoals[j].goal = Pos(attendees[i])
          /\ FreeNeighbours(j) = {}
          /\ attendees[j].total_wait_time_steps
                 = AfterUpdateGoals[j].total_wait_time_steps + 1

\* ------------------------------------------- claims on the BFS engine
\* A _step_once call is being made.
CoreStepTaken == time_step' = time_step + 1

\* The attendees that have not finished.
Unfinished == {i \in CoreIds : ~core_attendees[i].reached}

\* The cell unfinished attendee i asks for in the step being taken.
DesiredCell(i) ==
    DecideNextStep(core_attendees[i], distance_map, WalkableCells(grid), Exits(grid),
                   OccupiedCells(core_attendees)).nxt

\* The unfinished attendees that ask for cell t, not standing on it.
Wanting(t) == {i \in Unfinished : DesiredCell(i) = t /\ core_attendees[i].pos # t}

\* The attendees att stored in the order perm.
Reordered(att, perm) == [k \in 1..Len(att) |-> att[perm[k]]]

\* C33: when several unfinished attendees ask for the same target cell in one
\* _step_once, exactly the one with the lowest id among them moves there and
\* every other one stays on its cell; the outcome does not depend on the
\* order the attendees are stored in.
C33_LowestIdWinsConflict ==
    [][CoreStepTaken =>
          /\ \A t \in CoreCells(grid) :
                \A i \in Wanting(t) :
                    IF \A j \in Wanting(t) : core_attendees[i].id <= core_attendees[j].id
                    THEN core_attendees'[i].pos = t
                    ELSE core_attendees'[i].pos = core_attendees[i].pos
          /\ \A perm \in Orders(Len(core_attendees)) :
                StepResult(grid, distance_map, Reordered(core_attendees, perm)).att
                    = Reordered(core_attendees', perm)]_vars

\* After the first step of two attendees spawned on different entries next
\* to the same cell, attendee 0 stands on that cell and attendee 1 has not
\* moved.
C33_Witness ==
    /\ core_error = "none"
    /\ time_step = 1
    /\ Len(core_attendees) = 2
    /\ core_attendees[1].steps_taken = 1
    /\ core_attendees[2].steps_taken = 0
    /\ core_attendees[2].pos \in Entries(grid)
    /\ entry_list[1] # core_attendees[2].pos
    /\ \E k \in 1..4 : Neighbors4(core_attendees[2].pos)[k] = core_attendees[1].pos
    /\ distance_map[core_attendees[1].pos] < distance_map[core_attendees[2].pos]

\* C34: while at least one attendee is unfinished and every entry can reach an
\* exit, each _step_once moves at least one attendee (some steps_taken goes
\* up), so after any positive number of steps at least one attendee has
\* steps_taken > 0.
C34_EveryStepMovesSomeone ==
    /\ [][(CoreStepTaken /\ Unfinished # {} /\ EveryEntryReachesExit(grid)) =>
             \E i \in CoreIds :
                 core_attendees'[i].steps_taken > core_attendees[i].steps_taken]_vars
    /\ []((time_step > 0 /\ core_attendees # <<>> /\ EveryEntryReachesExit(grid)) =>
             \E i \in CoreIds : core_attendees[i].steps_taken > 0)

\* Two steps into a run one attendee has moved in every step and another,
\* held up on the entry, has not moved yet.
C34_Witness ==
    /\ core_error = "none"
    /\ EveryEntryReachesExit(grid)
    /\ time_step >= 2
    /\ \E i, j \in CoreIds :
          /\ core_attendees[i].steps_taken = time_step
          /\ ~core_attendees[j].reached
          /\ core_attendees[j].steps_taken = 0

\* The cells of the grid that are not obstacles.
PassableCells == {p \in CoreCells(grid) : GridAt(grid, p) # "X"}

\* p and q are 4-neighbours.
Adjacent4(p, q) ==
    \/ p[1] = q[1] /\ (p[2] = q[2] + 1 \/ q[2] = p[2] + 1)
    \/ p[2] = q[2] /\ (p[1] = q[1] + 1 \/ q[1] = p[1] + 1)

\* The number of 4-neighbour steps over passable cells it takes from p to get
\* into the set near, which holds the cells at most k steps from an exit;
\* -1 if no number of steps does.
RECURSIVE StepsToExit(_, _, _)
StepsToExit(p, near, k) ==
    IF p \in near THEN k
    ELSE LET wider == near \cup {q \in PassableCells : \E n \in near : Adjacent4(q, n)}
         IN  IF wider = near THEN -1 ELSE StepsToExit(p, wider, k + 1)

\* The length of the shortest path from p to an exit, -1 if there is none.
ShortestPathToExit(p) == StepsToExit(p, Exits(grid), 0)

\* C35: _bfs_distance_to_exits gives, for every cell that is not an obstacle,
\* the length of the shortest 4-neighbour path over non-obstacle cells to the
\* nearest exit (0 on exits), and -1 exactly for the cells no exit can be
\* reached from.
C35_BfsGivesShortestDistance ==
    core_error = "none" =>
        /\ \A p \in PassableCells : distance_map[p] = ShortestPathToExit(p)
        /\ \A p \in CoreCells(grid) :
              distance_map[p] = -1 <=> ShortestPathToExit(p) = -1

\* The distance map of a grid where an obstacle cuts one entry off from the
\* exit and another entry, on the far side of the obstacle, reaches it.
C35_Witness ==
    /\ core_error = "none"
    /\ \E p \in Entries(grid) : distance_map[p] = -1
    /\ \E p \in Entries(grid) :
          /\ distance_map[p] > 0
          /\ \E x \in CoreCells(grid) : GridAt(grid, x) = "X" /\ Adjacent4(p, x)

\* C36: every attendee of the BFS engine always stands on a walkable cell
\* (W, E or O), and in each step an attendee either stays or moves to a
\* 4-neighbour cell that no unfinished attendee occupied when the step began.
C36_MovesToFreeWalkableNeighbour ==
    /\ [](\A i \in CoreIds :
             /\ core_attendees[i].pos \in CoreCells(grid)
             /\ GridAt(grid, core_attendees[i].pos) \in {"W", "E", "O"})
    /\ [][CoreStepTaken =>
             \A i \in CoreIds :
                 \/ core_attendees'[i].pos = core_attendees[i].pos
                 \/ /\ Adjacent4(core_attendees'[i].pos, core_attendees[i].pos)
                    /\ \A j \in Unfinished :
                          core_attendees[j].pos # core_attendees'[i].pos]_vars

\* An unfinished attendee has had to stay for a step and stands right behind
\* another unfinished attendee that is nearer to the exit.
C36_Witness ==
    /\ core_error = "none"
    /\ \E i, j \in CoreIds :
          /\ ~core_attendees[i].reached /\ ~core_attendees[j].reached
          /\ Adjacent4(core_attendees[i].pos, core_attendees[j].pos)
          /\ distance_map[core_attendees[i].pos] < distance_map[core_attendees[j].pos]
          /\ core_attendees[i].steps_taken > 0
          /\ core_attendees[j].steps_taken > 0
          /\ core_attendees[j].steps_taken < time_step

\* The pairs of unfinished attendees of att that stand on one cell.
SharingPairs(att) ==
    {pr \in (1..Len(att)) \X (1..Len(att)) :
        /\ pr[1] < pr[2]
        /\ ~att[pr[1]].reached /\ ~att[pr[2]].reached
        /\ att[pr[1]].pos = att[pr[2]].pos}

\* The entry cell attendee i was spawned on (round-robin over entry_list).
SpawnCell(i) == entry_list[((i - 1) % Len(entry_list)) + 1]

\* C37: two unfinished attendees of the BFS engine share a cell only if both
\* still stand on the entry cell they were spawned on and neither has ever
\* moved (steps_taken = 0 for both); no step creates a new shared cell.
C37_SharingOnlyAtSpawn ==
    /\ [](\A pr \in SharingPairs(core_attendees) :
             \A i \in {pr[1], pr[2]} :
                 /\ core_attendees[i].pos = SpawnCell(i)
                 /\ core_attendees[i].pos \in Entries(grid)
                 /\ core_attendees[i].steps_taken = 0)
    /\ [][SharingPairs(core_attendees') \subseteq SharingPairs(core_attendees)]_vars

\* Two attendees still share their entry cell after a step in which a third,
\* spawned on the same cell, has moved away.
C37_Witness ==
    /\ core_error = "none"
    /\ time_step >= 1
    /\ \E pr \in SharingPairs(core_attendees) : \E k \in CoreIds :
          /\ SpawnCell(k) = core_attendees[pr[1]].pos
          /\ core_attendees[k].steps_taken > 0

\* C38: at every step boundary of the BFS engine these are equivalent for
\* each attendee: its reached flag is set, its id is in completed_ids, its
\* position is an exit cell; the position and steps_taken of a reached
\* attendee never change afterwards.
C38_ReachedMeansOnExitForGood ==
    /\ [](\A i \in CoreIds :
             /\ core_attendees[i].reached <=> core_attendees[i].id \in completed_ids
             /\ core_attendees[i].reached <=> core_attendees[i].pos \in Exits(grid))
    /\ [][\A i \in CoreIds :
             core_attendees[i].reached =>
                 /\ core_attendees'[i].reached
                 /\ core_attendees'[i].pos = core_attendees[i].pos
                 /\ core_attendees'[i].steps_taken = core_attendees[i].steps_taken]_vars

\* An attendee reached the exit some steps ago and has rested there since,
\* while another one is still on its way.
C38_Witness ==
    /\ core_error = "none"
    /\ \E i, j \in CoreIds :
          /\ core_attendees[i].reached
          /\ core_attendees[i].id \in completed_ids
          /\ core_attendees[i].pos \in Exits(grid)
          /\ core_attendees[i].steps_taken + 2 <= time_step
          /\ ~core_attendees[j].reached
          /\ core_attendees[j].steps_taken > 0

\* C39: every move of an attendee of the BFS engine lowers the BFS distance
\* of its cell by exactly 1, so its distance to the nearest exit never goes
\* up, and when it is marked reached its steps_taken equals the BFS distance
\* of the cell it was spawned on.
C39_MovesFollowDistance ==
    /\ [][\A i \in CoreIds :
             /\ core_attendees'[i].pos # core_attendees[i].pos =>
                   distance_map[core_attendees'[i].pos]
                       = distance_map[core_attendees[i].pos] - 1
             /\ distance_map[core_attendees'[i].pos]
                   <= distance_map[core_attendees[i].pos]]_vars
    /\ [](\A i \in CoreIds :
             core_attendees[i].reached =>
                 core_attendees[i].steps_taken = distance_map[SpawnCell(i)])

\* An attendee has reached the exit around an obstacle, after having been
\* held up on the way.
C39_Witness ==
    /\ core_error = "none"
    /\ \E i \in CoreIds :
          /\ core_attendees[i].reached
          /\ core_attendees[i].steps_taken = distance_map[SpawnCell(i)]
          /\ core_attendees[i].steps_taken
                > Manhattan(SpawnCell(i), core_attendees[i].pos)
          /\ \E j \in CoreIds : j < i /\ SpawnCell(j) = SpawnCell(i)

\* ------------------------------------------- claims on the AI validation
Corrected == validation_results[1].corrected_suggestions

\* C40: the corrected suggestions validate_ai_suggestions returns satisfy
\* every rule it enforces: validating them again with the same simulation
\* data and configuration gives is_valid = true and no issues; the corrected
\* exit-gate count is at least the corrected entrance-gate count, and when the
\* wait time exceeds 10 minutes the corrected staff count is at least the
\* current staff plus the required minimum increase.
C40_CorrectedSuggestionsAreValid ==
    /\ validation_calls >= 1 /\ validation_results # <<>> =>
          /\ Get(Corrected, "recommended_exit_gates",
                 Get(current_config, "exit_gates", 2))
                >= Get(Corrected, "recommended_entrance_gates",
                       Get(current_config, "entrance_gates", 2))
          /\ Get(simulation_data, "real_wait_time_mins", 0) > 10 =>
                Get(Corrected, "recommended_staff",
                    Get(current_config, "staff_count", 20))
                   >= Get(current_config, "staff_count", 20)
                      + MinStaffIncrease(Get(simulation_data, "real_wait_time_mins", 0))
    /\ validation_calls = 2 =>
          /\ revalidation_results # <<>>
          /\ revalidation_results[1].is_valid
          /\ revalidation_results[1].issues = <<>>

====
